---- MODULE Spec2Model ----
(***************************************************************************)
(* Collector of the Tailscale network traffic monitor: the HTTP handlers   *)
(* of collector/src/api/routes.py and collector/src/api/auth.py over the   *)
(* storage of collector/src/database/{db,models}.py.                       *)
(*                                                                         *)
(* Storage.  db.py builds one engine with poolclass=StaticPool and         *)
(* check_same_thread=False: every Session of every request runs its SQL on *)
(* the same SQLite connection.  The model therefore keeps two views:       *)
(*   disk  the committed database,                                         *)
(*   conn  what the shared connection sees: disk plus the statements that  *)
(*         were executed on it and not yet committed.                      *)
(* A COMMIT issued by any session makes disk equal to conn; a ROLLBACK     *)
(* issued by any session (Session.close() with a transaction in progress,  *)
(* or a failed flush) makes conn equal to disk.                            *)
(*                                                                         *)
(* Handlers are plain "def" functions, which the framework runs on worker  *)
(* threads, so requests interleave; one step of the model is one storage   *)
(* call of the source (query, flush, commit, close).                       *)
(***************************************************************************)
EXTENDS Integers, Sequences, FiniteSets, TLC

\* ------------------------------------------------------------------ bounds
MaxReq == 3          \* requests served in one behaviour
MaxInFlight == 2     \* requests served at the same time (worker threads)
MaxSeqReq == 4       \* requests served in one behaviour, one after the other
MaxTicks == 2        \* clock advances in one behaviour
MaxPeers == 2        \* longest peer list of a submission
ShortGap == 2        \* seconds of a short clock advance
ClientSkew == 7      \* seconds the submitting agent's clock runs ahead
MaxAttempts == 7     \* largest retry_attempts of a submit_metrics call
MaxCalls == 3        \* calls made on one CollectorClient
MaxRows == 3         \* Metric rows of a stored history
MaxCounter == 3      \* largest interface byte counter read
MaxStamp == 3        \* latest time.time() of a reading
MaxSamples == 3      \* calculate_bandwidth calls on one monitor
MaxConns == 3        \* entries of one psutil.net_connections() listing
MaxLoops == 12       \* iterations of the agent's main loop

\* ------------------------------------------------------- program constants
AGENT_TIMEOUT_SECONDS == 300
RETRY_BACKOFF_SECONDS == <<1, 2, 5, 10, 30>>
\* Byte counters are written in units of 2^20 bytes, so that sums of several
\* GiB stay within the checker's integers; 1024 ** 3 bytes are 1024 units.
BYTES_TO_GB == 1024
TOP_LIMIT == 10                \* .limit(10) of the top connections query
SECONDS_PER_HOUR == 3600       \* timedelta(hours=1)
HISTORY_DEFAULT_HOURS == 24    \* Query(default=24, ge=1, le=720)
HISTORY_MIN_HOURS == 1
HISTORY_MAX_HOURS == 720
STATUS_IDLE == "idle"
STATUS_ONLINE == "online"
STATUS_OFFLINE == "offline"

Req == 1..MaxInFlight
Ips == {"100.64.0.1", "100.64.0.2"}
Hostnames == {"h1", "h2"}
NoKey == 0           \* a key that generate_api_key never issued
Null == "NULL"       \* None / SQL NULL
\* What each submission of the request-driven behaviours reports: 1 GiB sent,
\* half a GiB received, peer i resolved as "p<i>" with i units transferred.
BodySent == BYTES_TO_GB
BodyReceived == BYTES_TO_GB \div 2
\* The rates and the peer list of a submission: the agent's own program
\* sends what its estimator and aggregator produce; the schema of the
\* endpoint (schemas.py MetricsData, ConnectionInfo) takes any float as a
\* rate and any list of connections from whoever holds a key.
BodyRates(caller) ==
    IF caller = "agent" THEN {<<1, 2>>}
    ELSE {<<1, 2>>, <<-1, 2>>, <<1, -2>>}
PeerName(i) == CASE i = 1 -> "p1" [] i = 2 -> "p2" [] i = 3 -> "p3"
                 [] i = 4 -> "p4" [] i = 5 -> "p5" [] i = 6 -> "p6"
                 [] OTHER -> "p7"

\* Authorization header values, as the token list authorization.split() yields;
\* << >> stands for an absent (or empty) header.
HeadersOver(keys) ==
    {<< >>, <<"Bearer">>}
       \cup {<<s, k>> : s \in {"Bearer", "Basic"}, k \in keys}

\* str.lower() on the scheme tokens that occur
Lower(s) == IF s = "Bearer" THEN "bearer" ELSE s

VARIABLES
    disk,      \* committed tables: [agents, metrics, connections]
    conn,      \* the shared connection's view of the tables
    clock,     \* datetime.utcnow(), in seconds
    ticks,     \* clock advances so far
    issued,    \* credentials/ids generated so far
    served,    \* requests that have arrived so far
    pc,        \* pc[r]: where the request on worker r stands
    req,       \* req[r]: what request r carries
    loc,       \* loc[r]: request r's session and local variables
    resp,      \* resp[r]: the response of request r
    budget,    \* requests this behaviour receives
    script,    \* how far the end-to-end scenario has come (serial runs)
    client,    \* the agent-side CollectorClient
    monitor,   \* the agent-side NetworkMonitor's bandwidth estimator
    sockets,   \* the connection listing and what the aggregator made of it
    mainloop   \* the agent's main loop

vars == <<disk, conn, clock, ticks, issued, served, pc, req, loc, resp,
          budget, script, client, monitor, sockets, mainloop>>

\* ------------------------------------------------------------ pure helpers
MaxOf(S) == IF S = {} THEN 0 ELSE CHOOSE x \in S : \A y \in S : y <= x

\* auth.py hash_api_key / verify_api_key: a salted one-way digest; a key
\* verifies against a digest exactly when the digest was made from it.
hash_api_key(k) == <<"pbkdf2_sha256", k>>

VerifyAnything(k, h) == TRUE
verify_api_key(k, h) == h = <<"pbkdf2_sha256", k>>

\* models.py: Agent.tailscale_ip is unique=True; the INSERT of a second row
\* with the same value fails.
UniqueDropped(view, ip) == TRUE
UniqueIpFree(view, ip) == \A a \in view.agents : a.tailscale_ip # ip

\* routes.py get_current_agent: the header is two tokens, the first "bearer"
HeaderTwoTokens(h) == Len(h) = 2
HeaderWellFormed(h) == Len(h) = 2 /\ Lower(h[1]) = "bearer"

\* auth.py check_agent_timeout: the filter of the stale query
StaleOffByOne(a, threshold) ==
    a.last_seen + 1 < threshold /\ a.status # "offline"
Stale(a, threshold) ==
    a.last_seen < threshold /\ a.status # "offline"

\* routes.py submit_metrics: agent.last_seen = datetime.utcnow()
LastSeenStamp(now, submitted) == now

\* auth.py line 57, routes.py line 154: datetime.utcnow() is evaluated after
\* the handler's previous storage call returned (at clock value since) and
\* before its COMMIT runs (at clock value now); the handler's thread can be
\* held anywhere in between, so the value is from that stretch of time.
StampsRead(since, now) == {since, now}

\* SQLite rowid of the next inserted row: one more than the largest present
FirstMetricId(view) == 1
NextMetricId(view) == MaxOf({m.id : m \in view.metrics}) + 1
NextConnId(view) == MaxOf({c.id : c \in view.connections}) + 1

\* UPDATE agents SET last_seen = ls [, status = st] WHERE id = id.  The ORM
\* writes only the attributes whose value differs from the loaded one.
UpdateSeen(agents, id, ls, st, loaded) ==
    {IF a.id = id
       THEN [a EXCEPT !.last_seen = ls,
                      !.status = IF loaded = st THEN a.status ELSE st]
       ELSE a : a \in agents}

\* UPDATE agents SET status = 'offline' WHERE id IN ids
MarkNothing(agents, ids) == agents
MarkOffline(agents, ids) ==
    {IF a.id \in ids THEN [a EXCEPT !.status = "offline"] ELSE a : a \in agents}

\* routes.py submit_metrics: the Connection rows of one submission
NewConnections(view, mid, k, repeated) ==
    {[id |-> NextConnId(view) + i - 1, metric_id |-> mid,
      remote |-> IF repeated THEN 1 ELSE i,
      remote_hostname |-> PeerName(i), bytes_transferred |-> i]
        : i \in 1..k}

\* auth.py authenticate_agent: the first agent whose hash verifies the key
Matching(view, k) == {a \in view.agents : verify_api_key(k, a.api_key_hash)}
FirstOf(S) == CHOOSE a \in S : \A b \in S : a.id <= b.id

\* round(x / BYTES_TO_GB, 2), in hundredths: Python rounds the exact quotient
\* to the nearest hundredth, a tie to the even one.
RoundHalfEven(n, d) ==
    LET q == n \div d
        rest == n % d IN
    IF 2 * rest < d THEN q
    ELSE IF 2 * rest > d THEN q + 1
    ELSE IF q % 2 = 0 THEN q ELSE q + 1
Gb(bytes) == RoundHalfEven(bytes * 100, BYTES_TO_GB)

\* sum(m.bytes_sent + m.bytes_received for m in rows)
RECURSIVE SumBytes(_)
SumBytes(rows) ==
    IF rows = {} THEN 0
    ELSE LET m == CHOOSE x \in rows : TRUE IN
         m.bytes_sent + m.bytes_received + SumBytes(rows \ {m})

\* func.sum(Connection.bytes_transferred)
RECURSIVE SumTransferred(_)
SumTransferred(rows) ==
    IF rows = {} THEN 0
    ELSE LET c == CHOOSE x \in rows : TRUE IN
         c.bytes_transferred + SumTransferred(rows \ {c})

\* routes.py get_dashboard lines 198-206: per agent_id the Metric row with
\* max(Metric.id)
EveryRow(view) == view.metrics
LatestById(view) ==
    {m \in view.metrics :
        \A n \in view.metrics : n.agent_id = m.agent_id => n.id <= m.id}

\* routes.py lines 238-240 and 312-314: order_by(desc(Metric.timestamp))
\* .first() may return any of the agent's rows with the largest timestamp;
\* 0 stands for no row.
LatestByStamp(view, aid) ==
    LET mine == {m \in view.metrics : m.agent_id = aid}
        top == {m \in mine : \A n \in mine : n.timestamp <= m.timestamp} IN
    IF mine = {} THEN {0} ELSE {m.id : m \in top}
MetricOf(view, mid) == CHOOSE m \in view.metrics : m.id = mid

\* routes.py lines 242-263 and 316-332: the HostTraffic of one agent
HostEntry(view, a, mid) ==
    [agent |-> a.id, hostname |-> a.hostname, status |-> a.status,
     sent_gb |-> IF mid = 0 THEN 0 ELSE Gb(MetricOf(view, mid).bytes_sent),
     received_gb |-> IF mid = 0 THEN 0
                     ELSE Gb(MetricOf(view, mid).bytes_received)]

\* routes.py lines 269-282: agents joined with their metrics and connections,
\* recent metrics and named peers only, grouped by the two hostnames
Joined(view, since) ==
    {<<a, m, c>> \in view.agents \X view.metrics \X view.connections :
        /\ m.agent_id = a.id /\ c.metric_id = m.id
        /\ m.timestamp >= since /\ c.remote_hostname # Null}
Groups(view, since) ==
    LET rows == Joined(view, since) IN
    {[from_host |-> row[1].hostname, to_host |-> row[3].remote_hostname,
      total_bytes |-> SumTransferred(
          {x[3] : x \in {y \in rows :
                     /\ y[1].hostname = row[1].hostname
                     /\ y[3].remote_hostname = row[3].remote_hostname}}),
      traffic_gb |-> 0] : row \in rows}

\* routes.py lines 283-294: order_by(desc("total_bytes")).limit(10); rows of
\* equal total come in any order.
RECURSIVE TopSeqs(_, _)
TopSeqs(G, n) ==
    IF n = 0 \/ G = {} THEN {<< >>}
    ELSE UNION {{<<[g EXCEPT !.traffic_gb = Gb(g.total_bytes)]>> \o t :
                    t \in TopSeqs(G \ {g}, n - 1)} :
                 g \in {x \in G : \A y \in G : y.total_bytes <= x.total_bytes}}

EmptyTables == [agents |-> {}, metrics |-> {}, connections |-> {}]
NoReq == [kind |-> "none", tailscale_ip |-> "", hostname |-> "",
          header |-> << >>, timestamp |-> 0, peers |-> 0, hours |-> 0,
          given |-> FALSE, caller |-> "agent", upload_mbps |-> 0,
          download_mbps |-> 0, repeated |-> FALSE]
NoLoc == [txn |-> FALSE, agent |-> 0, loaded |-> "", reloaded |-> "",
          metric_id |-> 0, stale |-> {}, now |-> 0, queries |-> 0,
          counted |-> {}, latest |-> {}, used |-> {}, since |-> 0]
NoResp == [code |-> 0, api_key |-> NoKey, agents |-> {}, total_hosts |-> 0,
           online_hosts |-> 0, offline_hosts |-> 0, total_traffic_gb |-> 0,
           hosts |-> {}, top_connections |-> << >>, data |-> << >>]

\* ------------------------------------------------------- agent-side client
\* Keys a client may hold or be given
ClientKeys == {1, 2}

\* What one POST /api/v1/metrics attempt ends in: a non-error status, a 401,
\* another error status, the two named requests exceptions, any other
\* exception of the call, or model_dump failing before anything is sent.
Outcomes == {"ok", "401", "http_error", "connection_error", "timeout",
             "other", "serialise"}

\* What the POST of register ends in; "malformed" is a reply that is not an
\* AgentRegistrationResponse.
RegOutcomes == {"ok", "409", "http_error", "connection_error", "timeout",
                "malformed"}

\* CollectorClient.__init__: the Authorization header exists only with a key
NewClient(key) ==
    [pc |-> "ready", api_key |-> key,
     header |-> IF key = NoKey THEN << >> ELSE <<"Bearer", key>>,
     calls |-> 0, n |-> 0, attempt |-> 0, tries |-> 0, posts |-> 0,
     slept |-> << >>, outcome |-> "", carried |-> << >>, result |-> FALSE,
     reg_posts |-> 0, reg_outcome |-> "", reg_result |-> NoKey]

\* The client of a collector-only behaviour: built, never called
IdleClient == NewClient(NoKey)

\* CollectorClient.set_api_key
SetKeyOnly(c, k) == [c EXCEPT !.api_key = k]
set_api_key(c, k) == [c EXCEPT !.api_key = k, !.header = <<"Bearer", k>>]

\* submit_metrics: for attempt in range(retry_attempts)
OneMore(i, n) == i <= n
InRange(i, n) == i < n

\* submit_metrics lines 135-138: the status that ends the call
NeverFatal(o) == FALSE
Fatal(o) == o = "401"

\* submit_metrics lines 135-149: the failures an except clause catches
CaughtNamed(o) == o \in {"401", "http_error", "connection_error", "timeout"}
Caught(o) == o \in Outcomes \ {"ok"}

\* submit_metrics line 154: the backoff after the failed attempt i (0-based)
MinOf(a, b) == IF a < b THEN a ELSE b
BackoffAhead(i) ==
    RETRY_BACKOFF_SECONDS[MinOf(i + 1, Len(RETRY_BACKOFF_SECONDS) - 1) + 1]
Backoff(i) ==
    RETRY_BACKOFF_SECONDS[MinOf(i, Len(RETRY_BACKOFF_SECONDS) - 1) + 1]

\* register lines 84-103: what the caller gets; NoKey stands for None
RegisterResult(o, k) == IF o = "ok" THEN k ELSE NoKey

\* ------------------------------------------------------ bandwidth estimator
\* An attribute that is None, and one that holds a value
Unset == << >>
Some(x) == <<x>>
BYTES_TO_MBPS == [num |-> 8, den |-> 1024 * 1024]

\* monitor.py NetworkMonitor.__init__ lines 38-41; the other fields record
\* the last call: its arguments, the baseline it found, its deltas, what it
\* returned.
NewMonitor ==
    [prev_bytes_sent |-> Unset, prev_bytes_recv |-> Unset,
     prev_timestamp |-> Unset, calls |-> 0,
     args |-> [bytes_sent |-> 0, bytes_recv |-> 0, timestamp |-> 0],
     before |-> <<Unset, Unset, Unset>>, deltas |-> Unset,
     result |-> Unset]

\* A rate is kept as an exact fraction of Mbps; (0.0, 0.0) is two zeros.
ZeroRate == [num |-> 0, den |-> 1]
Rate(delta, time_elapsed) ==
    [num |-> delta * BYTES_TO_MBPS.num, den |-> time_elapsed * BYTES_TO_MBPS.den]

\* monitor.py lines 137-138: the elapsed time that gives no rate
StalledStrict(time_elapsed) == time_elapsed < 0
Stalled(time_elapsed) == time_elapsed <= 0

\* monitor.py lines 141-148: the byte delta of one direction
RawDelta(current, baseline) == current - baseline
Delta(current, baseline) ==
    IF current - baseline < 0 THEN current ELSE current - baseline

\* monitor.py lines 129-131 and 155-157: the reading becomes the baseline
StoreOnce(m, bytes_sent, bytes_recv, timestamp) ==
    [m EXCEPT !.prev_bytes_sent = Some(bytes_sent),
              !.prev_bytes_recv = Some(bytes_recv),
              !.prev_timestamp = IF @ = Unset THEN Some(timestamp) ELSE @]
Store(m, bytes_sent, bytes_recv, timestamp) ==
    [m EXCEPT !.prev_bytes_sent = Some(bytes_sent),
              !.prev_bytes_recv = Some(bytes_recv),
              !.prev_timestamp = Some(timestamp)]

\* ---------------------------------------------------- connection aggregator
\* An address string is kept as its pieces, so that str.startswith is a
\* comparison of leading pieces.
TAILSCALE_IP_PREFIX == <<"100.">>
StartsWith(text, prefix) ==
    /\ Len(text) >= Len(prefix)
    /\ SubSeq(text, 1, Len(prefix)) = prefix

\* self.tailscale_ip, two peers of the tailnet, an address outside it (with
\* "100." further in), and another local address of the machine
OwnIp == <<"100.", "64.0.1">>
PeerIps == {<<"100.", "64.0.2">>, <<"100.", "64.0.3">>}
LanIp == <<"10.", "100.", "0.5">>

\* What psutil.net_connections(kind='inet') lists: laddr and raddr are
\* (ip, port) or the empty tuple, status is one of psutil's CONN_* names.
RawEntry(laddr, raddr, status) ==
    [laddr |-> laddr, raddr |-> raddr, status |-> status]
RawEntries ==
    {RawEntry(<<OwnIp, 1>>, <<ip, port>>, status) :
        ip \in PeerIps, port \in {22, 443},
        status \in {"ESTABLISHED", "TIME_WAIT", "CLOSE_WAIT"}}
    \cup {RawEntry(<<OwnIp, 1>>, <<LanIp, 22>>, "ESTABLISHED"),
          RawEntry(<<OwnIp, 1>>, << >>, "LISTEN"),
          RawEntry(<<<<"192.", "168.0.9">>, 1>>,
                   <<CHOOSE ip \in PeerIps : TRUE, 22>>, "ESTABLISHED"),
          RawEntry(<< >>, << >>, "NONE")}
RECURSIVE RawLists(_)
RawLists(n) ==
    IF n = 0 THEN {<< >>}
    ELSE RawLists(n - 1)
         \cup {Append(l, e) : l \in {k \in RawLists(n - 1) : Len(k) = n - 1},
                              e \in RawEntries}

Least(S) == CHOOSE x \in S : \A y \in S : x <= y

\* monitor.py lines 178-205: conn_map after the loop, in insertion order
RECURSIVE Aggregated(_, _)
Aggregated(all_connections, tailscale_ip) ==
    IF all_connections = << >> THEN << >>
    ELSE
      LET n == Len(all_connections)
          before == Aggregated(SubSeq(all_connections, 1, n - 1), tailscale_ip)
          c == all_connections[n]
      IN IF c.laddr = << >> \/ c.raddr = << >> THEN before
         ELSE IF c.laddr[1] # tailscale_ip THEN before
         ELSE IF ~StartsWith(c.raddr[1], TAILSCALE_IP_PREFIX) THEN before
         ELSE
           LET remote_ip == c.raddr[1]
               at == {i \in 1..Len(before) : before[i].ip = remote_ip}
               seen == IF c.status # "" THEN {c.status} ELSE {}
           IN IF at = {}
                THEN Append(before, [ip |-> remote_ip, ports |-> {c.raddr[2]},
                                     states |-> seen, bytes |-> 0])
                ELSE [before EXCEPT ![CHOOSE i \in at : TRUE] =
                         [@ EXCEPT !.ports = @ \cup {c.raddr[2]},
                                   !.states = @ \cup seen]]

\* monitor.py line 211: the primary port
LargestPort(ports) == IF ports # {} THEN Some(MaxOf(ports)) ELSE Unset
PrimaryPort(ports) == IF ports # {} THEN Some(Least(ports)) ELSE Unset

\* monitor.py line 212: ESTABLISHED if seen, else next(iter(states), None),
\* which is whichever element the set's iteration yields first
PrimaryStates(states) ==
    IF "ESTABLISHED" \in states THEN {"ESTABLISHED"}
    ELSE IF states = {} THEN {Null} ELSE states

\* monitor.py _resolve_hostname lines 229-243: the resolver's name or None
ResolvedNames(ip) == {Null, "peer"}

\* monitor.py lines 207-220: the lists the conversion loop can build
RECURSIVE Converted(_)
Converted(conn_map) ==
    IF conn_map = << >> THEN {<< >>}
    ELSE
      LET n == Len(conn_map)
          data == conn_map[n]
      IN {Append(rest, [ip |-> data.ip, hostname |-> hostname,
                        bytes |-> data.bytes, port |-> PrimaryPort(data.ports),
                        state |-> state]) :
             rest \in Converted(SubSeq(conn_map, 1, n - 1)),
             hostname \in ResolvedNames(data.ip),
             state \in PrimaryStates(data.states)}

NoSockets == [all_connections |-> << >>, called |-> FALSE, denied |-> FALSE,
              connections |-> << >>]

\* ----------------------------------------------------------- agent main loop
\* main.py line 132 and constants.py line 11 (config.py line 25)
MAX_FAILURES == 10
METRIC_INTERVAL_SECONDS == 25

\* main.py lines 21 and 131: the stop flag, the failure counter, and where
\* the loop stands.  The other fields keep what the iteration in progress
\* did: what collection gave, how often submit_metrics was called, whether
\* a statement raised, how long the last time.sleep lasted, how many
\* iterations in a row ended in a failed collection or a failed submission,
\* where the loop stood when the signal came, and how the loop ended.
NewAgent ==
    [pc |-> "head", running |-> TRUE, consecutive_failures |-> 0,
     iteration |-> 0, time |-> 0, metrics |-> "", available |-> FALSE,
     submits |-> 0, success |-> FALSE, raised |-> FALSE, slept |-> 0,
     failed_ticks |-> 0, signalled |-> "", ended |-> ""]

EmptyCollector ==
    /\ disk = EmptyTables
    /\ conn = EmptyTables
    /\ clock = 0
    /\ ticks = 0
    /\ issued = 0
    /\ served = 0
    /\ pc = [r \in Req |-> "idle"]
    /\ req = [r \in Req |-> NoReq]
    /\ loc = [r \in Req |-> NoLoc]
    /\ resp = [r \in Req |-> NoResp]

Init ==
    /\ EmptyCollector
    /\ budget = MaxReq
    /\ script = 0
    /\ client = IdleClient
    /\ monitor = NewMonitor
    /\ sockets = NoSockets
    /\ mainloop = NewAgent

\* A behaviour of one client, built with or without a configured key
InitClient ==
    /\ EmptyCollector
    /\ budget = MaxReq
    /\ script = 0
    /\ client \in {NewClient(k) : k \in {NoKey} \cup ClientKeys}
    /\ monitor = NewMonitor
    /\ sockets = NoSockets
    /\ mainloop = NewAgent

\* ------------------------------------------------------- stored histories
\* The moment the queries of a stored history run at
Epoch == 721 * SECONDS_PER_HOUR

\* An Agent row as register_agent wrote it some time ago
StoredAgent(id, hostname, ip, seen) ==
    [id |-> id, hostname |-> hostname, tailscale_ip |-> ip,
     api_key_hash |-> hash_api_key(id), first_seen |-> 0, last_seen |-> seen,
     status |-> STATUS_ONLINE]

\* Registered agents: one host; two hosts, the second silent for longer than
\* the timeout; two agents that registered the same hostname from two IPs.
AgentTables ==
    {{StoredAgent(1, "h1", "100.64.0.1", Epoch)},
     {StoredAgent(1, "h1", "100.64.0.1", Epoch),
      StoredAgent(2, "h2", "100.64.0.2", Epoch - AGENT_TIMEOUT_SECONDS - 1)},
     {StoredAgent(1, "h1", "100.64.0.1", Epoch),
      StoredAgent(2, "h1", "100.64.0.2", Epoch - AGENT_TIMEOUT_SECONDS - 1)}}

\* Metric rows as submit_metrics wrote them: ids in insertion order, the
\* timestamp and the counters as the submitting agent supplied them.
MetricTables(agents, stamps, readings) ==
    UNION {
      {{[id |-> i, agent_id |-> f[i].agent_id, timestamp |-> f[i].timestamp,
         bytes_sent |-> f[i].reading[1],
         bytes_received |-> f[i].reading[2],
         active_connections |-> 0] : i \in 1..n} :
         f \in [1..n -> [agent_id : {a.id : a \in agents},
                         timestamp : stamps,
                         reading : readings]]} :
      n \in 0..MaxRows}

\* A collector that holds the given tables and receives one request
Holding(tables) ==
    /\ disk = tables
    /\ conn = tables
    /\ clock = Epoch
    /\ ticks = 0
    /\ issued = Cardinality(tables.agents)
    /\ served = 0
    /\ pc = [r \in Req |-> "idle"]
    /\ req = [r \in Req |-> NoReq]
    /\ loc = [r \in Req |-> NoLoc]
    /\ resp = [r \in Req |-> NoResp]
    /\ budget = 1
    /\ script = 0
    /\ client = IdleClient
    /\ monitor = NewMonitor
    /\ sockets = NoSockets
    /\ mainloop = NewAgent

\* (bytes_sent, bytes_received) of a submission: 10 GiB sent, 5 GiB received,
\* or an eighth of a GiB sent
InitTraffic ==
    \E agents \in AgentTables :
       \E metrics \in MetricTables(agents, {Epoch - 20, Epoch - 10},
                        {<<10 * BYTES_TO_GB, 0>>, <<0, 5 * BYTES_TO_GB>>,
                         <<BYTES_TO_GB \div 8, 0>>}) :
          Holding([agents |-> agents, metrics |-> metrics, connections |-> {}])

\* Histories with peer connections.  Two hosts; Snapshots 1 and 3 are h1's,
\* Snapshot 2 is h2's; each is stamped just before the last hour, at its
\* start, or ahead of the collector's clock; each lists no, three or six
\* peers, peer j of Snapshot i with j + i units transferred; the first peer
\* of every Snapshot may be unresolved (no hostname).
TopAgents ==
    {StoredAgent(1, "h1", "100.64.0.1", Epoch),
     StoredAgent(2, "h2", "100.64.0.2", Epoch - AGENT_TIMEOUT_SECONDS - 1)}
TopRows == {1, 2, 3}
TopMetrics(stamp) ==
    {[id |-> i, agent_id |-> IF i = 2 THEN 2 ELSE 1, timestamp |-> stamp[i],
      bytes_sent |-> BodySent, bytes_received |-> BodyReceived,
      active_connections |-> 0] : i \in TopRows}
TopPeers(count, unresolved) ==
    {[id |-> 10 * i + j, metric_id |-> i, remote |-> j,
      remote_hostname |-> IF unresolved /\ j = 1 THEN Null ELSE PeerName(j),
      bytes_transferred |-> j + i] :
        <<i, j>> \in {x \in TopRows \X (1..6) : x[2] <= count[x[1]]}}

InitTop ==
    \E stamp \in [TopRows -> {Epoch - SECONDS_PER_HOUR - 1,
                             Epoch - SECONDS_PER_HOUR, Epoch + ClientSkew}],
       count \in [TopRows -> {0, 3, 6}],
       unresolved \in BOOLEAN :
          Holding([agents |-> TopAgents, metrics |-> TopMetrics(stamp),
                   connections |-> TopPeers(count, unresolved)])

\* Histories for the historical series: one or two hosts, Snapshots stamped
\* ahead of the collector's clock, at it, at the start of the last hour, just
\* before the last 24 hours, and at the start of the last 720 hours.
HistoryAgents ==
    {{StoredAgent(1, "h1", "100.64.0.1", Epoch)},
     {StoredAgent(1, "h1", "100.64.0.1", Epoch),
      StoredAgent(2, "h2", "100.64.0.2", Epoch)}}
HistoryStamps ==
    {Epoch + ClientSkew, Epoch, Epoch - SECONDS_PER_HOUR,
     Epoch - HISTORY_DEFAULT_HOURS * SECONDS_PER_HOUR - 1,
     Epoch - HISTORY_MAX_HOURS * SECONDS_PER_HOUR}
InitHistory ==
    \E agents \in HistoryAgents :
       \E metrics \in MetricTables(agents, HistoryStamps,
                                   {<<BodySent, BodyReceived>>}) :
          Holding([agents |-> agents, metrics |-> metrics, connections |-> {}])

\* A behaviour of requests served one after the other
InitSeq ==
    /\ EmptyCollector
    /\ budget = MaxSeqReq
    /\ script = 0
    /\ client = IdleClient
    /\ monitor = NewMonitor
    /\ sockets = NoSockets
    /\ mainloop = NewAgent

\* The collector's steps leave the run's budget, the scenario and the client
\* alone.
Quiet == UNCHANGED <<budget, script, client, monitor, sockets, mainloop>>

\* ----------------------------------------------------------------- actions
Tick(d) ==
    /\ Quiet
    /\ ticks < MaxTicks
    /\ clock' = clock + d
    /\ ticks' = ticks + 1
    /\ UNCHANGED <<disk, conn, issued, served, pc, req, loc, resp>>

\* A request arrives and is given to the lowest free worker; get_db hands it
\* a fresh Session (no SQL yet).
Arrive(r, first, what) ==
    /\ Quiet
    /\ pc[r] = "idle"
    /\ \A q \in Req : q < r => pc[q] # "idle"
    /\ served < budget
    /\ served' = served + 1
    /\ pc' = [pc EXCEPT ![r] = first]
    /\ req' = [req EXCEPT ![r] = what]
    /\ UNCHANGED <<disk, conn, clock, ticks, issued, loc, resp>>

StartRegister(r) ==
    \E ip \in Ips :
        Arrive(r, "reg_check",
               [NoReq EXCEPT !.kind = "register", !.tailscale_ip = ip,
                             !.hostname = IF ip = "100.64.0.1" THEN "h1"
                                          ELSE "h2"])

\* The body of a submission is read by submit_metrics only; it is drawn there.
\* Its timestamp is the agent's clock, ClientSkew ahead of the collector's.
StartMetrics(r) ==
    \E hd \in HeadersOver(0..issued) :
        Arrive(r, "auth", [NoReq EXCEPT !.kind = "metrics", !.header = hd])

\* POST /metrics from any holder of a key, not the agent program
StartForeign(r) ==
    \E hd \in HeadersOver(0..issued) :
        Arrive(r, "auth", [NoReq EXCEPT !.kind = "metrics", !.header = hd,
                                        !.caller = "any"])

StartAgents(r) == Arrive(r, "sweep", [NoReq EXCEPT !.kind = "agents"])

StartDashboard(r) == Arrive(r, "sweep", [NoReq EXCEPT !.kind = "dashboard"])

StartSummary(r) == Arrive(r, "sweep", [NoReq EXCEPT !.kind = "summary"])

StartHost(r) ==
    \E h \in Hostnames :
        Arrive(r, "host_query", [NoReq EXCEPT !.kind = "host", !.hostname = h])

\* routes.py register_agent, lines 78-87: the existence check
RegCheck(r) ==
    /\ Quiet
    /\ pc[r] = "reg_check"
    /\ loc' = [loc EXCEPT ![r].txn = TRUE, ![r].queries = @ + 1]
    /\ IF \E a \in conn.agents : a.tailscale_ip = req[r].tailscale_ip
         THEN /\ resp' = [resp EXCEPT ![r].code = 409]
              /\ pc' = [pc EXCEPT ![r] = "close"]
         ELSE /\ pc' = [pc EXCEPT ![r] = "reg_commit"]
              /\ UNCHANGED resp
    /\ UNCHANGED <<disk, conn, clock, ticks, issued, served, req>>

\* routes.py register_agent, lines 89-114: mint id and key, INSERT, COMMIT,
\* refresh.  A violated unique constraint raises IntegrityError out of the
\* handler (a 500 response) after the Session rolled the connection back.
RegCommit(r) ==
    /\ Quiet
    /\ pc[r] = "reg_commit"
    /\ issued' = issued + 1
    /\ IF UniqueIpFree(conn, req[r].tailscale_ip)
         THEN /\ conn' = [conn EXCEPT !.agents = @ \cup
                            {[id |-> issued + 1,
                              hostname |-> req[r].hostname,
                              tailscale_ip |-> req[r].tailscale_ip,
                              api_key_hash |-> hash_api_key(issued + 1),
                              first_seen |-> clock,
                              last_seen |-> clock,
                              status |-> STATUS_ONLINE]}]
              /\ disk' = conn'
              /\ resp' = [resp EXCEPT ![r].code = 200, ![r].api_key = issued + 1]
              /\ loc' = [loc EXCEPT ![r].txn = TRUE, ![r].agent = issued + 1,
                                    ![r].queries = @ + 2]
         ELSE /\ conn' = disk
              /\ disk' = disk
              /\ resp' = [resp EXCEPT ![r].code = 500]
              /\ loc' = [loc EXCEPT ![r].txn = FALSE, ![r].queries = @ + 1]
    /\ pc' = [pc EXCEPT ![r] = "close"]
    /\ UNCHANGED <<clock, ticks, served, req>>

\* routes.py get_current_agent + auth.py authenticate_agent lines 52-55:
\* header checks, then the scan of all agents for one the key verifies.
Authenticate(r) ==
    /\ Quiet
    /\ pc[r] = "auth"
    /\ IF ~HeaderWellFormed(req[r].header)
         THEN /\ resp' = [resp EXCEPT ![r].code = 401]
              /\ pc' = [pc EXCEPT ![r] = "close"]
              /\ UNCHANGED loc
         ELSE LET found == Matching(conn, req[r].header[2]) IN
              IF found = {}
                THEN /\ resp' = [resp EXCEPT ![r].code = 401]
                     /\ pc' = [pc EXCEPT ![r] = "close"]
                     /\ loc' = [loc EXCEPT ![r].txn = TRUE, ![r].queries = @ + 1]
                ELSE /\ pc' = [pc EXCEPT ![r] = "auth_commit"]
                     /\ loc' = [loc EXCEPT ![r].txn = TRUE, ![r].queries = @ + 1,
                                           ![r].agent = FirstOf(found).id,
                                           ![r].loaded = FirstOf(found).status,
                                           ![r].since = clock]
                     /\ UNCHANGED resp
    /\ UNCHANGED <<disk, conn, clock, ticks, issued, served, req>>

\* auth.py authenticate_agent lines 56-60: last_seen, status, COMMIT
AuthCommit(r) ==
    /\ Quiet
    /\ pc[r] = "auth_commit"
    /\ \E utcnow \in StampsRead(loc[r].since, clock) :
          conn' = [conn EXCEPT !.agents =
                      UpdateSeen(@, loc[r].agent, utcnow, "online",
                                 loc[r].loaded)]
    /\ disk' = conn'
    /\ loc' = [loc EXCEPT ![r].txn = FALSE, ![r].queries = @ + 1,
                          ![r].since = 0]
    /\ pc' = [pc EXCEPT ![r] = "sm_flush"]
    /\ UNCHANGED <<clock, ticks, issued, served, req, resp>>

\* routes.py submit_metrics lines 125-139: the expired agent is reloaded by
\* the read of agent.id, the Metric row is INSERTed by db.flush().
SmFlush(r) ==
    /\ Quiet
    /\ pc[r] = "sm_flush"
    /\ \E ip \in Ips, k \in 0..MaxPeers :
       \E rates \in BodyRates(req[r].caller),
          repeated \in IF req[r].caller = "agent" \/ k < 2 THEN {FALSE}
                       ELSE BOOLEAN :
       LET me == CHOOSE a \in conn.agents : a.id = loc[r].agent
           ts == clock + ClientSkew
           mid == NextMetricId(conn) IN
       /\ req' = [req EXCEPT ![r].tailscale_ip = ip, ![r].timestamp = ts,
                             ![r].peers = k,
                             ![r].upload_mbps = rates[1],
                             ![r].download_mbps = rates[2],
                             ![r].repeated = repeated]
       /\ conn' = [conn EXCEPT !.metrics = @ \cup
                      {[id |-> mid, agent_id |-> loc[r].agent,
                        timestamp |-> ts,
                        bytes_sent |-> BodySent,
                        bytes_received |-> BodyReceived,
                        upload_mbps |-> rates[1],
                        download_mbps |-> rates[2],
                        active_connections |-> k]}]
       /\ loc' = [loc EXCEPT ![r].txn = TRUE, ![r].queries = @ + 2,
                             ![r].reloaded = me.status, ![r].metric_id = mid,
                             ![r].since = clock]
    /\ pc' = [pc EXCEPT ![r] = "sm_commit"]
    /\ UNCHANGED <<disk, clock, ticks, issued, served, resp>>

\* routes.py submit_metrics lines 141-159: the Connection rows, last_seen and
\* status, COMMIT.  foreign_keys=ON: a Connection row whose metric_id names
\* no Metric row fails the flush (IntegrityError, a 500 response).
SmCommit(r) ==
    /\ Quiet
    /\ pc[r] = "sm_commit"
    /\ IF req[r].peers > 0 /\ ~\E m \in conn.metrics : m.id = loc[r].metric_id
         THEN /\ conn' = disk
              /\ disk' = disk
              /\ resp' = [resp EXCEPT ![r].code = 500]
         ELSE /\ \E utcnow \in StampsRead(loc[r].since, clock) :
                 conn' = [conn EXCEPT
                    !.connections = @ \cup
                        NewConnections(conn, loc[r].metric_id, req[r].peers,
                                       req[r].repeated),
                    !.agents = UpdateSeen(@, loc[r].agent,
                                   LastSeenStamp(utcnow, req[r].timestamp),
                                   STATUS_ONLINE, loc[r].reloaded)]
              /\ disk' = conn'
              /\ resp' = [resp EXCEPT ![r].code = 200]
    /\ loc' = [loc EXCEPT ![r].txn = FALSE, ![r].queries = @ + 1,
                          ![r].now = clock, ![r].since = 0]
    /\ pc' = [pc EXCEPT ![r] = "close"]
    /\ UNCHANGED <<clock, ticks, issued, served, req>>

\* auth.py check_agent_timeout lines 73-78: the threshold and the stale query
SweepQuery(r) ==
    /\ Quiet
    /\ pc[r] = "sweep"
    /\ LET stale == {a.id : a \in {b \in conn.agents :
                                     Stale(b, clock - AGENT_TIMEOUT_SECONDS)}} IN
       /\ loc' = [loc EXCEPT ![r].txn = TRUE, ![r].queries = @ + 1,
                             ![r].now = clock, ![r].stale = stale]
       /\ pc' = [pc EXCEPT ![r] = IF stale = {} THEN "read" ELSE "sweep_commit"]
    /\ UNCHANGED <<disk, conn, clock, ticks, issued, served, req, resp>>

\* auth.py check_agent_timeout lines 80-84: mark offline, COMMIT
SweepCommit(r) ==
    /\ Quiet
    /\ pc[r] = "sweep_commit"
    /\ conn' = [conn EXCEPT !.agents = MarkOffline(@, loc[r].stale)]
    /\ disk' = conn'
    /\ loc' = [loc EXCEPT ![r].txn = FALSE, ![r].queries = @ + 1]
    /\ pc' = [pc EXCEPT ![r] = "read"]
    /\ UNCHANGED <<clock, ticks, issued, served, req, resp>>

\* What a response tells about one agent (AgentInfo, HostTraffic)
ShownWhole(a) == a
Shown(a) == [id |-> a.id, status |-> a.status, last_seen |-> a.last_seen]

\* routes.py list_agents lines 169-182, and the first query of get_dashboard
\* (line 193): the count of all agents.
Read(r) ==
    /\ Quiet
    /\ pc[r] = "read"
    /\ IF req[r].kind = "agents"
         THEN /\ resp' = [resp EXCEPT ![r] =
                    [NoResp EXCEPT !.code = 200,
                                   !.agents = {Shown(a) : a \in conn.agents}]]
              /\ loc' = [loc EXCEPT ![r].txn = TRUE, ![r].queries = @ + 1]
              /\ pc' = [pc EXCEPT ![r] = "close"]
         ELSE /\ resp' = [resp EXCEPT ![r].total_hosts =
                                          Cardinality(conn.agents)]
              /\ loc' = [loc EXCEPT ![r].txn = TRUE, ![r].queries = @ + 1,
                                    ![r].counted = {Shown(a) : a \in conn.agents}]
              /\ pc' = [pc EXCEPT ![r] = "count_online"]
    /\ UNCHANGED <<disk, conn, clock, ticks, issued, served, req>>

\* routes.py get_dashboard lines 194-195: the count of online agents, a
\* second query; offline_hosts is the difference.
CountOnline(r) ==
    /\ Quiet
    /\ pc[r] = "count_online"
    /\ LET online == Cardinality({a \in conn.agents :
                                     a.status = STATUS_ONLINE}) IN
       resp' = [resp EXCEPT ![r].online_hosts = online,
                            ![r].offline_hosts = resp[r].total_hosts - online]
    /\ loc' = [loc EXCEPT ![r].txn = TRUE, ![r].queries = @ + 1]
    /\ pc' = [pc EXCEPT ![r] = "traffic"]
    /\ UNCHANGED <<disk, conn, clock, ticks, issued, served, req>>

\* routes.py get_dashboard lines 197-222: the latest Metric row of every
\* agent and their total; the dashboard is answered, the summary goes on.
Traffic(r) ==
    /\ Quiet
    /\ pc[r] = "traffic"
    /\ LET latest_metrics == LatestById(conn)
           total_bytes == SumBytes(latest_metrics) IN
       /\ resp' = [resp EXCEPT
             ![r].total_traffic_gb = IF total_bytes # 0 THEN Gb(total_bytes)
                                     ELSE 0,
             ![r].code = IF req[r].kind = "dashboard" THEN 200 ELSE @]
       /\ loc' = [loc EXCEPT ![r].txn = TRUE, ![r].queries = @ + 1,
                             ![r].latest = {m.id : m \in latest_metrics}]
    /\ pc' = [pc EXCEPT ![r] = IF req[r].kind = "dashboard" THEN "close"
                               ELSE "hosts"]
    /\ UNCHANGED <<disk, conn, clock, ticks, issued, served, req>>

\* routes.py get_traffic_summary lines 232-263: every agent with its latest
\* Metric row
Hosts(r) ==
    /\ Quiet
    /\ pc[r] = "hosts"
    /\ \E pick \in [{a.id : a \in conn.agents} ->
                       {0} \cup {m.id : m \in conn.metrics}] :
          /\ \A a \in conn.agents : pick[a.id] \in LatestByStamp(conn, a.id)
          /\ resp' = [resp EXCEPT
                ![r].agents = {Shown(a) : a \in conn.agents},
                ![r].hosts = {HostEntry(conn, a, pick[a.id]) :
                                 a \in conn.agents}]
          /\ loc' = [loc EXCEPT
                ![r].txn = TRUE, ![r].queries = @ + 1,
                ![r].used = {<<a.id, pick[a.id]>> : a \in conn.agents}]
    /\ pc' = [pc EXCEPT ![r] = "top"]
    /\ UNCHANGED <<disk, conn, clock, ticks, issued, served, req>>

\* routes.py get_traffic_summary lines 265-300: the top connections of the
\* last hour; the summary is answered.
Top(r) ==
    /\ Quiet
    /\ pc[r] = "top"
    /\ \E top \in TopSeqs(Groups(conn, clock - SECONDS_PER_HOUR), TOP_LIMIT) :
          resp' = [resp EXCEPT ![r].top_connections = top, ![r].code = 200]
    /\ loc' = [loc EXCEPT ![r].txn = TRUE, ![r].queries = @ + 1,
                          ![r].now = clock]
    /\ pc' = [pc EXCEPT ![r] = "close"]
    /\ UNCHANGED <<disk, conn, clock, ticks, issued, served, req>>

\* routes.py get_host_traffic lines 307-332: the agent of that hostname, as
\* stored, with its latest Metric row; no call of check_agent_timeout.
HostQuery(r) ==
    /\ Quiet
    /\ pc[r] = "host_query"
    /\ LET found == {a \in conn.agents : a.hostname = req[r].hostname} IN
       IF found = {}
         THEN /\ resp' = [resp EXCEPT ![r] = [NoResp EXCEPT !.code = 404]]
              /\ loc' = [loc EXCEPT ![r].txn = TRUE, ![r].queries = @ + 1,
                                    ![r].now = clock]
         ELSE \E agent \in found, mid \in {0} \cup {m.id : m \in conn.metrics} :
                 /\ mid \in LatestByStamp(conn, agent.id)
                 /\ resp' = [resp EXCEPT ![r] =
                       [NoResp EXCEPT
                           !.code = 200,
                           !.agents = {Shown(agent)},
                           !.hosts = {HostEntry(conn, agent, mid)}]]
                 /\ loc' = [loc EXCEPT
                       ![r].txn = TRUE, ![r].queries = @ + 2,
                       ![r].now = clock, ![r].used = {<<agent.id, mid>>}]
    /\ pc' = [pc EXCEPT ![r] = "close"]
    /\ UNCHANGED <<disk, conn, clock, ticks, issued, served, req>>

\* GET /traffic/history?hours=H&hostname=NAME, either parameter optional
StartHistory(r) ==
    \E given \in BOOLEAN,
       h \in {0, HISTORY_MIN_HOURS, HISTORY_MAX_HOURS, HISTORY_MAX_HOURS + 1},
       name \in {Null} \cup Hostnames :
        /\ (~given) => h = HISTORY_MIN_HOURS
        /\ Arrive(r, "history",
                  [NoReq EXCEPT !.kind = "history", !.given = given,
                                !.hours = IF given THEN h
                                          ELSE HISTORY_DEFAULT_HOURS,
                                !.hostname = name])

\* routes.py lines 349-350: the time filter of the history query
WithinOpen(t, start_time, end_time) == start_time < t /\ t <= end_time
Within(t, start_time, end_time) == start_time <= t /\ t <= end_time

\* routes.py lines 346-354: Metric rows joined with their Agent, filtered
Selected(view, start_time, end_time, name) ==
    {<<m, a>> \in view.metrics \X view.agents :
        /\ m.agent_id = a.id
        /\ Within(m.timestamp, start_time, end_time)
        /\ name # Null => a.hostname = name}

\* routes.py lines 356-368: order_by(Metric.timestamp); rows of equal
\* timestamp come in any order.  A point keeps the row's id to tell apart
\* two entries of equal content.
RECURSIVE SeriesOf(_)
SeriesOf(rows) ==
    IF rows = {} THEN {<< >>}
    ELSE UNION {{<<[id |-> x[1].id, timestamp |-> x[1].timestamp,
                    hostname |-> x[2].hostname,
                    bytes_sent |-> x[1].bytes_sent,
                    bytes_received |-> x[1].bytes_received]>> \o t :
                    t \in SeriesOf(rows \ {x})} :
                 x \in {y \in rows :
                          \A z \in rows : y[1].timestamp <= z[1].timestamp}}

\* routes.py get_traffic_history lines 336-375
\* routes.py line 337: Query(default=24, ge=1, le=720); the framework answers
\* a value outside the range with 422 and does not call the handler.
History(r) ==
    /\ Quiet
    /\ pc[r] = "history"
    /\ IF ~(HISTORY_MIN_HOURS <= req[r].hours
             /\ req[r].hours <= HISTORY_MAX_HOURS)
         THEN /\ resp' = [resp EXCEPT ![r] = [NoResp EXCEPT !.code = 422]]
              /\ loc' = loc
         ELSE LET end_time == clock
                  start_time == end_time - req[r].hours * SECONDS_PER_HOUR IN
              /\ \E data \in SeriesOf(Selected(conn, start_time, end_time,
                                               req[r].hostname)) :
                    resp' = [resp EXCEPT ![r] =
                                [NoResp EXCEPT !.code = 200, !.data = data]]
              /\ loc' = [loc EXCEPT ![r].txn = TRUE, ![r].queries = @ + 1,
                                    ![r].now = end_time]
    /\ pc' = [pc EXCEPT ![r] = "close"]
    /\ UNCHANGED <<disk, conn, clock, ticks, issued, served, req>>

\* db.py get_session: finally session.close().  A Session with a transaction
\* in progress rolls the connection back.  The response is sent, the request
\* with its Session and objects is gone and the worker is free again.
CloseSession(r) ==
    /\ pc[r] = "close"
    /\ conn' = IF loc[r].txn THEN disk ELSE conn
    /\ loc' = [loc EXCEPT ![r] = NoLoc]
    /\ req' = [req EXCEPT ![r] = NoReq]
    /\ resp' = [resp EXCEPT ![r] = NoResp]
    /\ pc' = [pc EXCEPT ![r] = "idle"]
    /\ UNCHANGED <<disk, clock, ticks, issued, served, budget, client,
                   monitor, sockets, mainloop>>

\* The session of a request of ordinary traffic is closed.
Close(r) ==
    /\ CloseSession(r)
    /\ UNCHANGED script

\* POST /register
RegisterStep(r) ==
    \/ StartRegister(r)
    \/ RegCheck(r)
    \/ RegCommit(r)

\* POST /metrics
SubmitStep(r) ==
    \/ StartMetrics(r)
    \/ Authenticate(r)
    \/ AuthCommit(r)
    \/ SmFlush(r)
    \/ SmCommit(r)

\* GET /agents and GET /dashboard
AgentsStep(r) ==
    \/ StartAgents(r)
    \/ SweepQuery(r)
    \/ SweepCommit(r)
    \/ Read(r)

ReadStep(r) ==
    \/ AgentsStep(r)
    \/ StartDashboard(r)
    \/ CountOnline(r)
    \/ Traffic(r)

\* GET /traffic/summary and GET /traffic/by-host/{hostname}
TrafficStep(r) ==
    \/ StartSummary(r)
    \/ Hosts(r)
    \/ Top(r)
    \/ StartHost(r)
    \/ HostQuery(r)

\* The clock moves by a short gap or by just under the timeout.
Advance == \E d \in {ShortGap, AGENT_TIMEOUT_SECONDS - 1} : Tick(d)

\* All traffic; requests interleave at every storage call.
Next ==
    \/ Advance
    \/ \E r \in Req : \/ RegisterStep(r) \/ SubmitStep(r) \/ ReadStep(r)
                      \/ TrafficStep(r) \/ Close(r)

Spec == Init /\ [][Next]_vars

\* Registration traffic alone: every interleaving of /register requests.
NextRegister ==
    \/ Advance
    \/ \E r \in Req : RegisterStep(r) \/ Close(r)

SpecRegister == Init /\ [][NextRegister]_vars

\* Registration and submission traffic, interleaved.
NextIngest == \E r \in Req : RegisterStep(r) \/ SubmitStep(r) \/ Close(r)

SpecIngest == Init /\ [][NextIngest]_vars

\* Registration and submissions of any caller that holds a key
NextForeign ==
    \E r \in Req :
       \/ RegisterStep(r)
       \/ StartForeign(r)
       \/ Authenticate(r) \/ AuthCommit(r) \/ SmFlush(r) \/ SmCommit(r)
       \/ Close(r)

SpecForeign == Init /\ [][NextForeign]_vars

\* A collector that holds one agent, silent for longer than the timeout
\* and not yet swept, and one Snapshot of it with one peer.
KeptTables ==
    [agents |-> {StoredAgent(1, "h1", "100.64.0.1",
                             Epoch - AGENT_TIMEOUT_SECONDS - 1)},
     metrics |-> {[id |-> 1, agent_id |-> 1, timestamp |-> Epoch - 400,
                   bytes_sent |-> BodySent, bytes_received |-> BodyReceived,
                   upload_mbps |-> 1, download_mbps |-> 2,
                   active_connections |-> 1]},
     connections |-> {[id |-> 1, metric_id |-> 1, remote |-> 1,
                       remote_hostname |-> PeerName(1),
                       bytes_transferred |-> 1]}]
InitWrite ==
    /\ disk = KeptTables
    /\ conn = KeptTables
    /\ clock = Epoch
    /\ ticks = 0
    /\ issued = 1
    /\ served = 0
    /\ pc = [r \in Req |-> "idle"]
    /\ req = [r \in Req |-> NoReq]
    /\ loc = [r \in Req |-> NoLoc]
    /\ resp = [r \in Req |-> NoResp]
    /\ budget = MaxReq
    /\ script = 0
    /\ client = IdleClient
    /\ monitor = NewMonitor
    /\ sockets = NoSockets
    /\ mainloop = NewAgent

\* Everything that writes: registration, submission and the sweep of
\* GET /agents.  A request arrives while at most one other is being served,
\* so requests overlap in pairs, in every interleaving of their steps.
PairedStart(r) ==
    /\ Cardinality({q \in Req \ {r} : pc[q] # "idle"}) <= 1
    /\ \/ StartRegister(r)
       \/ StartMetrics(r)
       \/ StartAgents(r)

NextWrite ==
    \E r \in Req :
       \/ PairedStart(r)
       \/ RegCheck(r) \/ RegCommit(r)
       \/ Authenticate(r) \/ AuthCommit(r) \/ SmFlush(r) \/ SmCommit(r)
       \/ SweepQuery(r) \/ SweepCommit(r) \/ Read(r)
       \/ Close(r)

SpecWrite == InitWrite /\ [][NextWrite]_vars

\* Registration and read traffic, interleaved, over a moving clock.
NextSweep ==
    \/ Advance
    \/ \E r \in Req : RegisterStep(r) \/ AgentsStep(r) \/ Close(r)

SpecSweep == Init /\ [][NextSweep]_vars

\* Requests served one after the other: a request arrives only when the one
\* before it has been answered and closed.
Alone(r) == \A q \in Req \ {r} : pc[q] = "idle"

\* The end-to-end scenario of the collector's tests, as a test client
\* follows it: register h1, submit one snapshot without peers, see the
\* dashboard count one host online, later see /agents list it offline.  An
\* answer that is not the scenario's next one ends the run (Broken).
Broken == 9
Follows(at, q, a) ==
    CASE at = 0 /\ q.kind = "register" /\ q.tailscale_ip = "100.64.0.1"
                /\ a.code = 200 -> 1
      [] at = 1 /\ q.kind = "metrics" /\ q.peers = 0 /\ a.code = 200 -> 2
      [] at = 2 /\ q.kind = "dashboard" /\ a.total_hosts = 1
                /\ a.online_hosts = 1 -> 3
      [] at = 3 /\ q.kind = "agents"
                /\ (\E x \in a.agents : x.status = "offline") -> 4
      [] OTHER -> Broken

\* The test client sends its next request once the last one is answered.
SerialStart(r) ==
    /\ Alone(r)
    /\ script # Broken
    /\ \/ StartRegister(r)
       \/ StartMetrics(r)
       \/ StartAgents(r)
       \/ StartDashboard(r)

\* The answer of request r reaches the test client; the request is closed.
Deliver(r) ==
    /\ CloseSession(r)
    /\ script' = Follows(script, req[r], resp[r])

NextSeq ==
    \/ Advance
    \/ \E r \in Req :
          \/ SerialStart(r)
          \/ RegCheck(r) \/ RegCommit(r)
          \/ Authenticate(r) \/ AuthCommit(r) \/ SmFlush(r) \/ SmCommit(r)
          \/ SweepQuery(r) \/ SweepCommit(r) \/ Read(r)
          \/ CountOnline(r) \/ Traffic(r)
          \/ Deliver(r)

SpecSeq == InitSeq /\ [][NextSeq]_vars

\* Every endpoint's traffic, served one request after the other.
SerialTraffic(r) ==
    /\ Alone(r)
    /\ \/ StartSummary(r)
       \/ StartHost(r)

NextServe ==
    \/ Advance
    \/ \E r \in Req :
          \/ SerialStart(r) \/ SerialTraffic(r)
          \/ RegCheck(r) \/ RegCommit(r)
          \/ Authenticate(r) \/ AuthCommit(r) \/ SmFlush(r) \/ SmCommit(r)
          \/ SweepQuery(r) \/ SweepCommit(r) \/ Read(r)
          \/ CountOnline(r) \/ Traffic(r) \/ Hosts(r) \/ Top(r)
          \/ HostQuery(r)
          \/ Close(r)

SpecServe == Init /\ [][NextServe]_vars

\* The aggregate views of a stored history
NextTraffic ==
    \E r \in Req :
       \/ StartDashboard(r) \/ StartSummary(r) \/ StartHost(r)
       \/ SweepQuery(r) \/ SweepCommit(r) \/ Read(r)
       \/ CountOnline(r) \/ Traffic(r) \/ Hosts(r) \/ Top(r)
       \/ HostQuery(r)
       \/ Close(r)

SpecTraffic == InitTraffic /\ [][NextTraffic]_vars

\* The traffic summary of a history with peer connections
NextTop ==
    \E r \in Req :
       \/ StartSummary(r)
       \/ SweepQuery(r) \/ SweepCommit(r) \/ Read(r)
       \/ CountOnline(r) \/ Traffic(r) \/ Hosts(r) \/ Top(r)
       \/ Close(r)

SpecTop == InitTop /\ [][NextTop]_vars

\* The historical series of a stored history
NextHistory == \E r \in Req : StartHistory(r) \/ History(r) \/ Close(r)

SpecHistory == InitHistory /\ [][NextHistory]_vars

\* ------------------------------------------------------- estimator action
\* The estimator's steps leave the collector and the client alone.
Aside ==
    UNCHANGED <<disk, conn, clock, ticks, issued, served, pc, req, loc, resp,
                budget, script, client, sockets, mainloop>>

\* monitor.py calculate_bandwidth lines 110-159, one call
calculate_bandwidth(bytes_sent, bytes_recv, timestamp) ==
    LET called == [monitor EXCEPT
                      !.calls = @ + 1,
                      !.args = [bytes_sent |-> bytes_sent,
                                bytes_recv |-> bytes_recv,
                                timestamp |-> timestamp],
                      !.before = <<monitor.prev_bytes_sent,
                                   monitor.prev_bytes_recv,
                                   monitor.prev_timestamp>>,
                      !.deltas = Unset] IN
    IF monitor.prev_bytes_sent = Unset
      THEN [Store(called, bytes_sent, bytes_recv, timestamp) EXCEPT
               !.result = <<ZeroRate, ZeroRate>>]
      ELSE LET time_elapsed == timestamp - monitor.prev_timestamp[1] IN
           IF Stalled(time_elapsed)
             THEN [called EXCEPT !.result = <<ZeroRate, ZeroRate>>]
             ELSE LET sent_delta == Delta(bytes_sent, monitor.prev_bytes_sent[1])
                      recv_delta == Delta(bytes_recv, monitor.prev_bytes_recv[1])
                  IN [Store(called, bytes_sent, bytes_recv, timestamp) EXCEPT
                         !.deltas = <<sent_delta, recv_delta>>,
                         !.result = <<Rate(sent_delta, time_elapsed),
                                      Rate(recv_delta, time_elapsed)>>]

\* monitor.py collect_metrics lines 259-265: a reading of the interface
\* counters and of the clock is handed to the estimator.
Sample ==
    /\ Aside
    /\ monitor.calls < MaxSamples
    /\ \E bytes_sent \in 0..MaxCounter, bytes_recv \in 0..MaxCounter,
          timestamp \in 0..MaxStamp :
          monitor' = calculate_bandwidth(bytes_sent, bytes_recv, timestamp)

NextMonitor == Sample

SpecMonitor == Init /\ [][NextMonitor]_vars

\* ------------------------------------------------------- main loop actions
\* The loop's steps leave the collector, the client's call state and the
\* connection listing alone.
Besides ==
    UNCHANGED <<disk, conn, clock, ticks, issued, served, pc, req, loc, resp,
                budget, script, client, sockets>>

\* main.py signal_handler lines 24-28: SIGINT or SIGTERM sets running = False
\* and returns; it can run between any two steps of the loop.
signal_handler ==
    /\ Besides
    /\ UNCHANGED monitor
    /\ mainloop.pc # "stopped"
    /\ mainloop.running
    /\ mainloop' = [mainloop EXCEPT !.running = FALSE, !.signalled = mainloop.pc]

\* main.py line 134 and lines 183-184: the loop condition; a new iteration,
\* or "Agent stopped" and sys.exit(0).
LoopTest ==
    /\ Besides
    /\ UNCHANGED monitor
    /\ mainloop.pc = "head"
    /\ IF mainloop.running
         THEN /\ mainloop.iteration < MaxLoops
              /\ mainloop' = [mainloop EXCEPT
                    !.pc = "collect", !.iteration = @ + 1, !.metrics = "",
                    !.available = FALSE, !.submits = 0, !.success = FALSE,
                    !.raised = FALSE]
         ELSE mainloop' = [mainloop EXCEPT !.pc = "stopped", !.ended = "stop"]

\* main.py lines 137-141 with monitor.py collect_metrics lines 245-288: the
\* counters are unavailable (None before the estimator is called), or the
\* estimator takes the reading and then either a later statement of the
\* pipeline raises (None) or the metrics are returned.  The interface
\* counters grow with the iterations; the clock is the loop's time.
Collect ==
    /\ Besides
    /\ mainloop.pc = "collect"
    /\ \/ /\ UNCHANGED monitor
          /\ mainloop' = [mainloop EXCEPT
                !.metrics = "none", !.available = FALSE,
                !.consecutive_failures = @ + 1, !.failed_ticks = @ + 1,
                !.pc = "check"]
       \/ /\ monitor' = calculate_bandwidth(mainloop.iteration,
                                            mainloop.iteration, mainloop.time)
          /\ \/ mainloop' = [mainloop EXCEPT
                   !.metrics = "none", !.available = TRUE,
                   !.consecutive_failures = @ + 1, !.failed_ticks = @ + 1,
                   !.pc = "check"]
             \/ mainloop' = [mainloop EXCEPT
                   !.metrics = "data", !.available = TRUE, !.pc = "submit"]

\* main.py lines 143-165 and 178-180: the submission is built and handed to
\* submit_metrics, which answers True or False; or a statement of this
\* branch raises before the call and the generic handler counts a failure.
Submit ==
    /\ Besides
    /\ UNCHANGED monitor
    /\ mainloop.pc = "submit"
    /\ \/ mainloop' = [mainloop EXCEPT
             !.raised = TRUE, !.consecutive_failures = @ + 1,
             !.failed_ticks = 0, !.pc = "recover"]
       \/ \E success \in BOOLEAN :
             mainloop' = [mainloop EXCEPT
                !.submits = @ + 1, !.success = success,
                !.consecutive_failures = IF success THEN 0 ELSE @ + 1,
                !.failed_ticks = IF success THEN 0 ELSE @ + 1,
                !.pc = "check"]

\* main.py lines 168-170: the threshold; break leads to sys.exit(0)
Check ==
    /\ Besides
    /\ UNCHANGED monitor
    /\ mainloop.pc = "check"
    /\ mainloop' = IF mainloop.consecutive_failures >= MAX_FAILURES
                     THEN [mainloop EXCEPT !.pc = "stopped",
                                           !.ended = "failures"]
                     ELSE [mainloop EXCEPT !.pc = "sleep", !.slept = 0]

\* main.py line 173 and line 181: time.sleep(interval).  The signal handler
\* returns without raising, so an interrupted sleep is resumed for the rest
\* of the interval: the loop goes on when the whole interval has passed.
Wait ==
    /\ Besides
    /\ UNCHANGED monitor
    /\ mainloop.pc \in {"sleep", "recover"}
    /\ mainloop' = [mainloop EXCEPT
          !.slept = METRIC_INTERVAL_SECONDS,
          !.time = @ + METRIC_INTERVAL_SECONDS, !.pc = "head"]

LoopStep == LoopTest \/ Collect \/ Submit \/ Check \/ Wait

NextAgent == LoopStep \/ signal_handler

\* The loop's thread always gets to run; signals come or do not.
SpecAgent == Init /\ [][NextAgent]_vars /\ WF_vars(LoopStep)

\* ------------------------------------------------------- aggregator action
\* A listing is aggregated for an agent whose other parts stand still.
InitConnections ==
    /\ EmptyCollector
    /\ budget = MaxReq
    /\ script = 0
    /\ client = IdleClient
    /\ monitor = NewMonitor
    /\ sockets \in {[NoSockets EXCEPT !.all_connections = l] :
                       l \in RawLists(MaxConns)}
    /\ mainloop = NewAgent

\* monitor.py get_active_connections lines 161-227, one call: either
\* net_connections raises (AccessDenied, PermissionError, any Exception) and
\* the empty list is returned, or the listing is aggregated and converted.
get_active_connections ==
    /\ UNCHANGED <<disk, conn, clock, ticks, issued, served, pc, req, loc,
                   resp, budget, script, client, monitor, mainloop>>
    /\ ~sockets.called
    /\ \/ sockets' = [sockets EXCEPT !.called = TRUE, !.denied = TRUE,
                                     !.connections = << >>]
       \/ \E connections \in
               Converted(Aggregated(sockets.all_connections, OwnIp)) :
             sockets' = [sockets EXCEPT !.called = TRUE,
                                        !.connections = connections]

NextConnections == get_active_connections

SpecConnections == InitConnections /\ [][NextConnections]_vars

\* ---------------------------------------------------------- client actions
\* The client's steps leave the collector alone.
Apart ==
    UNCHANGED <<disk, conn, clock, ticks, issued, served, pc, req, loc, resp,
                budget, script, monitor, sockets, mainloop>>

\* A call of submit_metrics(submission, retry_attempts = n) begins.
SubmitCall ==
    /\ Apart
    /\ client.pc = "ready" /\ client.calls < MaxCalls
    /\ \E n \in 0..MaxAttempts :
          client' = [client EXCEPT !.pc = "loop", !.calls = @ + 1, !.n = n,
                                   !.attempt = 0, !.tries = 0, !.posts = 0,
                                   !.slept = << >>, !.outcome = "",
                                   !.carried = << >>, !.result = FALSE]

\* collector_client.py line 122 and lines 158-159: the loop head; the loop
\* exhausted returns False.
LoopHead ==
    /\ Apart
    /\ client.pc = "loop"
    /\ client' = IF InRange(client.attempt, client.n)
                   THEN [client EXCEPT !.pc = "post"]
                   ELSE [client EXCEPT !.pc = "returned", !.result = FALSE]

\* collector_client.py lines 123-149: one attempt.  The POST carries the
\* session's headers; success returns True, a 401 returns False, any other
\* caught failure falls through to the backoff.
Post ==
    /\ Apart
    /\ client.pc = "post"
    /\ \E o \in Outcomes :
          client' =
            [client EXCEPT
               !.outcome = o,
               !.tries = @ + 1,
               !.posts = IF o = "serialise" THEN @ ELSE @ + 1,
               !.carried = IF o = "serialise" THEN @ ELSE client.header,
               !.result = (o = "ok"),
               !.pc = IF o = "ok" THEN "returned"
                      ELSE IF ~Caught(o) THEN "raised"
                      ELSE IF Fatal(o) THEN "returned"
                      ELSE "backoff"]

\* collector_client.py lines 151-156: sleep unless this was the last attempt
Sleep ==
    /\ Apart
    /\ client.pc = "backoff"
    /\ client' =
         [client EXCEPT
            !.slept = IF client.attempt < client.n - 1
                        THEN Append(@, Backoff(client.attempt)) ELSE @,
            !.attempt = @ + 1,
            !.pc = "loop"]

\* The caller has the result; the client is ready for its next call.
Return ==
    /\ Apart
    /\ client.pc = "returned"
    /\ client' = [client EXCEPT !.pc = "ready"]

\* collector_client.py lines 55-103: register, one POST; a parsed reply makes
\* its api_key the client's key.
Register ==
    /\ Apart
    /\ client.pc = "ready" /\ client.calls < MaxCalls
    /\ \E o \in RegOutcomes, k \in ClientKeys :
          client' =
            [(IF o = "ok" THEN set_api_key(client, k) ELSE client) EXCEPT
               !.calls = @ + 1,
               !.reg_posts = @ + 1,
               !.reg_outcome = o,
               !.reg_result = RegisterResult(o, k)]

NextClient ==
    \/ SubmitCall
    \/ LoopHead
    \/ Post
    \/ Sleep
    \/ Return
    \/ Register

\* The client is a sequential program: its next statement is always executed.
SpecClient == InitClient /\ [][NextClient]_vars /\ WF_vars(NextClient)

\* ------------------------------------------------------------------ claims
IsKind(r, k) == req[r].kind = k
Moved(r) == pc'[r] # pc[r]
Answered(r, code) == pc[r] = "close" /\ resp[r].code = code
\* generate_api_key and generate_agent_id are drawn together: the n-th
\* registration issues key n to agent n.
OwnerOf(k) == k
PeersOf(tables, mid) == {c \in tables.connections : c.metric_id = mid}
Malformed(h) == Len(h) # 2 \/ h[1] \notin {"Bearer", "bearer"}

\* C1: at every moment no two stored agents share a tailscale_ip, and a
\* /register request that finds its IP already held is answered 409 and
\* changes nothing in storage, under every interleaving of /register requests.
C1_NoSharedIp ==
    \A a \in disk.agents, b \in disk.agents :
        a.tailscale_ip = b.tailscale_ip => a = b
C1_ConflictStep ==
    \A r \in Req :
        /\ (pc[r] = "reg_check" /\ Moved(r)
              /\ \E a \in disk.agents : a.tailscale_ip = req[r].tailscale_ip)
           => resp'[r].code = 409 /\ pc'[r] = "close"
        /\ (Moved(r) /\ (resp[r].code = 409 \/ resp'[r].code = 409))
           => disk' = disk
C1_OneAgentPerIp == []C1_NoSharedIp /\ [][C1_ConflictStep]_vars
C1_Witness ==
    \E r \in Req, q \in Req :
        /\ Answered(r, 409) /\ IsKind(r, "register")
        /\ Answered(q, 200) /\ IsKind(q, "register")
        /\ req[q].tailscale_ip = req[r].tailscale_ip
        /\ \E a \in disk.agents : a.tailscale_ip = req[r].tailscale_ip

\* C2: of the /register requests racing for one unregistered IP, one is
\* answered 200 and every other one 409: a /register request is never
\* answered with anything else.
C2_RaceAnswersConflict ==
    \A r \in Req :
        (pc[r] = "close" /\ IsKind(r, "register")) => resp[r].code \in {200, 409}

\* C3: a /metrics request whose Authorization header is missing or malformed,
\* or whose key belongs to no stored agent, is answered 401 and nothing in
\* storage changes; for a missing or malformed header no query is run at all.
C3_RejectStep ==
    \A r \in Req :
        /\ (pc[r] = "auth" /\ Moved(r)
              /\ (\/ Malformed(req[r].header)
                  \/ ~\E a \in disk.agents : a.id = OwnerOf(req[r].header[2])))
           => resp'[r].code = 401 /\ pc'[r] = "close" /\ disk' = disk
        /\ (Moved(r) /\ (resp[r].code = 401 \/ resp'[r].code = 401))
           => disk' = disk
C3_NoQuery ==
    \A r \in Req :
        (pc[r] = "auth" /\ Moved(r) /\ Malformed(req[r].header))
           => loc'[r].queries = 0 /\ ~loc'[r].txn /\ conn' = conn
C3_Unauthorized == [][C3_RejectStep /\ C3_NoQuery]_vars
C3_Witness ==
    \E r \in Req, q \in Req :
        /\ Answered(r, 401) /\ Len(req[r].header) = 2
        /\ req[r].header[1] = "Basic"
        /\ \E a \in disk.agents : a.id = OwnerOf(req[r].header[2])
        /\ loc[r].queries = 0
        /\ Answered(q, 401) /\ req[q].header = <<"Bearer", NoKey>>
        /\ loc[q].queries = 1

\* C4: the Snapshot of a submission is attributed to the agent that owns the
\* presented key and to no other, whatever identity the body names; two
\* agents never hold the same credential.
C4_OwnerStep ==
    \A m \in conn'.metrics \ conn.metrics :
        \E r \in Req :
            /\ pc[r] = "sm_flush" /\ Moved(r)
            /\ m.agent_id = OwnerOf(req[r].header[2])
            /\ m.id = loc'[r].metric_id
C4_DistinctHashes ==
    \A a \in disk.agents, b \in disk.agents :
        a.api_key_hash = b.api_key_hash => a = b
C4_Attribution == []C4_DistinctHashes /\ [][C4_OwnerStep]_vars
C4_Witness ==
    \E r \in Req :
        /\ pc[r] = "sm_commit"
        /\ \E m \in conn.metrics, a \in disk.agents, b \in disk.agents :
              /\ m.id = loc[r].metric_id
              /\ a.id = OwnerOf(req[r].header[2]) /\ m.agent_id = a.id
              /\ b.id # a.id /\ b.tailscale_ip = req[r].tailscale_ip

\* C5: once a submission with K peers is accepted, storage holds its one
\* Snapshot, with active_connections = K and exactly K PeerConnection rows
\* referring to it.
C5_RowsPerSubmission ==
    \A r \in Req :
        (Answered(r, 200) /\ IsKind(r, "metrics"))
           => \E m \in disk.metrics :
                 /\ m.id = loc[r].metric_id
                 /\ m.agent_id = loc[r].agent
                 /\ m.active_connections = req[r].peers
                 /\ Cardinality(PeersOf(disk, m.id)) = req[r].peers

\* C6: the liveness update of a submission (last_seen, status online) and
\* its Snapshot are committed together: a commit that moves an agent's
\* last_seen or brings it online also commits a new Snapshot of that agent.
C6_AtomicStep ==
    \A a \in disk.agents, b \in disk'.agents :
        (a.id = b.id /\ (b.last_seen # a.last_seen
                           \/ (a.status = "offline" /\ b.status = "online")))
           => \E m \in disk'.metrics \ disk.metrics : m.agent_id = a.id
C6_LivenessWithSnapshot == [][C6_AtomicStep]_vars

\* C7: a Snapshot in committed storage always has all of its PeerConnection
\* rows: no query can find a Snapshot with only some of its peers written.
C7_WholeSnapshots ==
    \A m \in disk.metrics :
        Cardinality(PeersOf(disk, m.id)) = m.active_connections

\* C8: at the step that answers a /metrics request with success, the stored
\* agent is online and its last_seen is the collector's clock, not the
\* timestamp of the body.
C8_SuccessStep ==
    \A r \in Req :
        (pc[r] = "sm_commit" /\ Moved(r) /\ resp'[r].code = 200)
           => \E a \in disk'.agents :
                 /\ a.id = loc[r].agent
                 /\ a.status = "online"
                 /\ a.last_seen = clock
C8_OnlineAfterIngest == [][C8_SuccessStep]_vars

\* C9: a sweep evaluated at time now selects exactly the agents that are not
\* offline and whose last_seen is strictly older than now - T, turns those
\* and no others offline and touches nothing else; last_seen = now - (T+1)
\* is selected, last_seen = now - (T-1) is not.
C9_Selects ==
    \A r \in Req :
        (pc[r] = "sweep" /\ Moved(r))
           => /\ loc'[r].now = clock
              /\ loc'[r].stale =
                    {a.id : a \in {b \in conn.agents :
                        /\ b.status = "online"
                        /\ b.last_seen + AGENT_TIMEOUT_SECONDS < clock}}
              /\ \A a \in conn.agents :
                    /\ (a.status = "online"
                          /\ a.last_seen = clock - (AGENT_TIMEOUT_SECONDS + 1))
                       => a.id \in loc'[r].stale
                    /\ a.last_seen >= clock - AGENT_TIMEOUT_SECONDS
                       => a.id \notin loc'[r].stale
              /\ disk' = disk
C9_Flips ==
    \A r \in Req :
        (pc[r] = "sweep_commit" /\ Moved(r))
           => disk'.agents =
                 {IF a.id \in loc[r].stale
                    THEN [a EXCEPT !.status = "offline"] ELSE a
                    : a \in disk.agents}
C9_SweepThreshold == [][C9_Selects /\ C9_Flips]_vars
C9_Witness ==
    \E r \in Req :
        /\ pc[r] = "read" /\ loc[r].stale # {}
        /\ \E a \in disk.agents, b \in disk.agents :
              /\ a.id \in loc[r].stale /\ a.status = "offline"
              /\ a.last_seen = loc[r].now - (AGENT_TIMEOUT_SECONDS + 1)
              /\ b.status = "online"
              /\ b.last_seen = loc[r].now - (AGENT_TIMEOUT_SECONDS - 1)

\* C10: an agent goes from offline to online only at the step where a
\* /metrics request of that agent succeeds and its Snapshot is committed.
C10_PromotionStep ==
    \A a \in disk.agents, b \in disk'.agents :
        (a.id = b.id /\ a.status = "offline" /\ b.status = "online")
           => \E r \in Req :
                 /\ pc[r] = "sm_commit" /\ resp'[r].code = 200
                 /\ loc[r].agent = a.id
                 /\ \E m \in disk'.metrics : m.agent_id = a.id
C10_PromotionOnlyByIngest == [][C10_PromotionStep]_vars

\* C11: an agent goes from online to offline only at the commit of a sweep
\* run by a read request, and at that step its last_seen is older than now
\* minus the timeout; no other step demotes an agent.
C11_DemotionStep ==
    \A a \in disk.agents, b \in disk'.agents :
        (a.id = b.id /\ a.status = "online" /\ b.status = "offline")
           => /\ \E r \in Req :
                    /\ pc[r] = "sweep_commit" /\ Moved(r)
                    /\ req[r].kind \in {"agents", "dashboard", "summary"}
              /\ a.last_seen + AGENT_TIMEOUT_SECONDS < clock
C11_DemotionOnlyBySweep == [][C11_DemotionStep]_vars

\* C12: a response that reports agent status never shows as online an agent
\* whose last_seen is older than the timeout at the time the request is
\* served, and the dashboard never counts such an agent as online.
StatusKinds == {"agents", "dashboard", "summary", "host"}
FreshAt(a, now) == a.last_seen + AGENT_TIMEOUT_SECONDS >= now
C12_AnswerStep ==
    \A r \in Req :
        (Moved(r) /\ pc'[r] = "close" /\ resp'[r].code = 200
              /\ req[r].kind \in StatusKinds)
           => /\ \A a \in resp'[r].agents :
                    a.status = "online" => FreshAt(a, loc'[r].now)
              /\ resp'[r].online_hosts <=
                    Cardinality({a \in conn.agents : FreshAt(a, loc'[r].now)})
C12_NoStaleOnline == [][C12_AnswerStep]_vars

\* C13: end to end, served one after the other: after registering h1 and one
\* accepted submission without peers, the dashboard answers total_hosts = 1
\* and online_hosts = 1; once the clock has passed the timeout with no further
\* submission, the next /agents answer lists that agent as offline.
C13_DeliverStep ==
    \A r \in Req :
        (pc[r] = "close" /\ pc'[r] = "idle")
           => /\ (script = 2 /\ IsKind(r, "dashboard")
                    /\ \A a \in disk.agents : FreshAt(a, loc[r].now))
                 => /\ resp[r].total_hosts = 1 /\ resp[r].online_hosts = 1
                    /\ script' = 3
              /\ (script = 3 /\ IsKind(r, "agents")
                    /\ \A a \in disk.agents : ~FreshAt(a, loc[r].now))
                 => /\ resp[r].agents # {}
                    /\ \A x \in resp[r].agents : x.status = "offline"
                    /\ script' = 4
C13_EndToEnd == [][C13_DeliverStep]_vars
C13_Witness ==
    /\ script = 4
    /\ \E a \in disk.agents :
          /\ a.hostname = "h1" /\ a.status = "offline"
          /\ disk.agents = {a}
          /\ \E m \in disk.metrics :
                /\ disk.metrics = {m} /\ m.agent_id = a.id
                /\ m.active_connections = 0 /\ PeersOf(disk, m.id) = {}

\* ------------------------------------------------------ claims on the client
\* The statements of submit_metrics the call is at
InCall == client.pc \in {"loop", "post", "backoff", "returned"}

\* The client took a step
Acted == client' # client

\* C14: submit_metrics(submission, retry_attempts = N) makes at most N POST
\* attempts, always terminates, returns True exactly when an attempt got a
\* non-error status (on that very attempt), and returns False after exactly
\* N attempts when all of them fail with retryable failures.
C14_Counts ==
    InCall => /\ client.posts <= client.n
              /\ client.tries <= client.n
              /\ client.posts <= client.tries
C14_Result ==
    client.pc = "returned"
       => /\ client.result <=> client.outcome = "ok"
          /\ client.result => client.tries = client.attempt + 1
          /\ (~client.result /\ client.outcome # "401")
                => client.tries = client.n
C14_AttemptStep ==
    (client.pc = "post" /\ Acted /\ client'.outcome = "ok")
       => client'.pc = "returned" /\ client'.result
C14_Terminates == (client.pc = "loop") ~> (client.pc = "returned")
C14_BoundedRetries ==
    /\ [](C14_Counts /\ C14_Result)
    /\ [][C14_AttemptStep]_vars
    /\ C14_Terminates
C14_Witness ==
    /\ client.pc = "returned" /\ ~client.result
    /\ client.n = 3 /\ client.posts = 3 /\ client.tries = 3
    /\ client.outcome = "timeout"

\* C15: the first attempt answered 401 ends the call: False at once, no
\* backoff sleep and no further POST, however many attempts remain.
C15_FatalStep ==
    (client.pc = "post" /\ Acted /\ client'.outcome = "401")
       => /\ client'.pc = "returned" /\ ~client'.result
          /\ client'.slept = client.slept
          /\ client'.posts = client.posts + 1
C15_AfterFatal ==
    (client.pc = "returned" /\ client.outcome = "401" /\ Acted)
       => client'.pc = "ready" /\ client'.posts = client.posts
                               /\ client'.slept = client.slept
C15_UnauthorizedIsFatal == [][C15_FatalStep /\ C15_AfterFatal]_vars
C15_Witness ==
    /\ client.pc = "returned" /\ client.outcome = "401" /\ ~client.result
    /\ client.n = 4 /\ client.attempt = 1
    /\ client.posts = 2 /\ Len(client.slept) = 1

\* C16: a retryable failure at attempt index i < N-1 is followed by exactly
\* one sleep of the table entry min(i, 4) of [1, 2, 5, 10, 30] and then by
\* attempt i+1; nothing is slept after the final attempt or after a success.
C16_Table(i) ==
    CASE i = 0 -> 1 [] i = 1 -> 2 [] i = 2 -> 5 [] i = 3 -> 10 [] OTHER -> 30
C16_SleepStep ==
    /\ (client.pc = "backoff" /\ Acted)
          => /\ client.outcome \in {"connection_error", "timeout",
                                    "http_error", "other", "serialise"}
             /\ IF client.attempt < client.n - 1
                  THEN /\ client'.slept =
                             Append(client.slept, C16_Table(client.attempt))
                       /\ client'.attempt = client.attempt + 1
                       /\ client'.pc = "loop"
                  ELSE client'.slept = client.slept
    /\ (client.pc \in {"loop", "post", "returned"} /\ Acted)
          => client'.slept = client.slept
C16_NextAttempt ==
    (client.pc = "loop" /\ client.attempt < client.n /\ Acted)
       => client'.pc = "post" /\ client'.attempt = client.attempt
C16_SleepCount ==
    InCall => Len(client.slept) =
                 IF client.attempt < client.n THEN client.attempt
                 ELSE IF client.n = 0 THEN 0 ELSE client.n - 1
C16_Backoff == []C16_SleepCount /\ [][C16_SleepStep /\ C16_NextAttempt]_vars
C16_Witness ==
    /\ client.pc = "returned" /\ ~client.result
    /\ client.n = 7 /\ client.posts = 7
    /\ client.slept = <<1, 2, 5, 10, 30, 30>>

\* C17: submit_metrics never lets an exception reach its caller: whatever the
\* POST or the serialisation ends in, and for every retry_attempts >= 0, the
\* call returns True or False.
C17_ControlStates == {"ready", "loop", "post", "backoff", "returned"}
C17_NeverRaises ==
    /\ client.pc \in C17_ControlStates
    /\ client.result \in BOOLEAN
C17_Witness ==
    /\ client.pc = "returned" /\ ~client.result
    /\ client.outcome = "serialise" /\ client.n = 2 /\ client.posts = 0

\* C18: registration is one POST without retry; on success the client's
\* credential becomes the returned api_key and every later /metrics request
\* carries it; on failure the credential is unchanged.
C18_Credential(c) ==
    IF c.api_key = NoKey THEN << >> ELSE <<"Bearer", c.api_key>>
C18_RegisterStep ==
    (client'.reg_posts # client.reg_posts)
       => /\ client.pc = "ready" /\ client'.pc = "ready"
          /\ client'.reg_posts = client.reg_posts + 1
          /\ IF client'.reg_outcome = "ok"
               THEN /\ client'.reg_result \in ClientKeys
                    /\ client'.api_key = client'.reg_result
                    /\ client'.header = <<"Bearer", client'.reg_result>>
               ELSE /\ client'.api_key = client.api_key
                    /\ client'.header = client.header
C18_KeyStep ==
    (client'.api_key # client.api_key \/ client'.header # client.header)
       => /\ client'.reg_posts = client.reg_posts + 1
          /\ client'.reg_outcome = "ok"
C18_MetricsStep ==
    (client'.posts = client.posts + 1)
       => client'.carried = C18_Credential(client)
C18_OneShotRegistration ==
    [][C18_RegisterStep /\ C18_KeyStep /\ C18_MetricsStep]_vars
C18_Witness ==
    /\ client.reg_posts = 2 /\ client.reg_outcome = "ok"
    /\ client.reg_result = 2 /\ client.api_key = 2
    /\ client.pc = "returned" /\ client.posts = 1
    /\ client.carried = <<"Bearer", 2>>

\* C19: what register returns for a 409 conflict differs from what it returns
\* for every other failure.
C19_OtherFailures == RegOutcomes \ {"ok", "409"}
C19_ConflictDistinct ==
    client.reg_outcome = "409"
       => \A o \in C19_OtherFailures, k \in ClientKeys :
             client.reg_result # RegisterResult(o, k)

\* C20: only a hash of each credential is stored; the plaintext key is in one
\* response alone, the successful /register response that minted it, and no
\* other response holds a key or a hash.
C20_Secret == {"api_key", "api_key_hash"}
C20_Stored ==
    \A view \in {disk, conn} : \A a \in view.agents :
        /\ "api_key" \notin DOMAIN a
        /\ \E k \in 1..issued : verify_api_key(k, a.api_key_hash)
C20_Answers ==
    \A r \in Req :
        /\ resp[r].api_key # NoKey => IsKind(r, "register") /\ resp[r].code = 200
        /\ \A x \in resp[r].agents : DOMAIN x \cap C20_Secret = {}
C20_MintStep ==
    \A r \in Req :
        (resp'[r].api_key # resp[r].api_key /\ resp'[r].api_key # NoKey)
           => /\ issued' = issued + 1
              /\ resp'[r].api_key = issued'
              /\ \A q \in Req \ {r} : resp'[q].api_key # resp'[r].api_key
C20_KeyOnlyAtRegistration ==
    [](C20_Stored /\ C20_Answers) /\ [][C20_MintStep]_vars
C20_Witness ==
    /\ issued = 2
    /\ \E r \in Req :
          /\ pc[r] = "close" /\ IsKind(r, "agents") /\ resp[r].code = 200
          /\ Cardinality(resp[r].agents) = 2

\* ------------------------------------------------ claims on the aggregates
\* A dashboard (alone or inside a traffic summary) has been computed
HasDashboard(r) ==
    /\ req[r].kind \in {"dashboard", "summary"}
    /\ pc[r] \in {"hosts", "top", "close"}

\* C22: in every dashboard response, whatever runs beside it, total_hosts =
\* online_hosts + offline_hosts, 0 <= online_hosts <= total_hosts,
\* offline_hosts >= 0, and the counts are those of the Agent table at one
\* moment.
C22_CountsAgree ==
    \A r \in Req :
        HasDashboard(r)
           => /\ resp[r].total_hosts = resp[r].online_hosts + resp[r].offline_hosts
              /\ 0 <= resp[r].online_hosts
              /\ resp[r].online_hosts <= resp[r].total_hosts
              /\ resp[r].offline_hosts >= 0
              /\ resp[r].total_hosts = Cardinality(loc[r].counted)
              /\ resp[r].online_hosts =
                    Cardinality({a \in loc[r].counted : a.status = STATUS_ONLINE})

\* The Snapshots of one Agent and the one with the largest identifier
SnapshotsOf(view, aid) == {m \in view.metrics : m.agent_id = aid}
NewestOf(view, aid) ==
    CHOOSE m \in SnapshotsOf(view, aid) :
        \A n \in SnapshotsOf(view, aid) : n.id <= m.id

\* C21: the dashboard's total traffic is the sum, over the Agents that have a
\* Snapshot, of bytes_sent + bytes_received of the Agent's Snapshot with the
\* largest identifier, in units of 2^30 bytes (two decimals); older Snapshots
\* and Agents without Snapshots add nothing.
RECURSIVE C21_Sum(_, _)
C21_Sum(view, agents) ==
    IF agents = {} THEN 0
    ELSE LET a == CHOOSE x \in agents : TRUE
             mine == IF SnapshotsOf(view, a.id) = {} THEN 0
                     ELSE NewestOf(view, a.id).bytes_sent
                            + NewestOf(view, a.id).bytes_received IN
         mine + C21_Sum(view, agents \ {a})
C21_TotalOfLatest ==
    \A r \in Req :
        HasDashboard(r)
           => resp[r].total_traffic_gb = Gb(C21_Sum(conn, conn.agents))
C21_Witness ==
    /\ Cardinality(disk.agents) = 2 /\ Cardinality(disk.metrics) = 3
    /\ \E r \in Req :
          /\ pc[r] = "close" /\ IsKind(r, "dashboard") /\ resp[r].code = 200
          /\ resp[r].total_traffic_gb = 1500

\* C23: the latest Snapshot of the per-host views (the hosts of the traffic
\* summary, the traffic of one host) is the one the dashboard uses, the
\* Agent's Snapshot with the largest identifier, also when the timestamps
\* the agents supplied are not in the order of ingestion.
C23_SameLatest ==
    \A r \in Req : \A u \in loc[r].used :
        u[2] = MaxOf({m.id : m \in SnapshotsOf(conn, u[1])})

\* C24: the traffic of one host is answered 404 exactly when no Agent has
\* that hostname, otherwise with the values of that Agent's latest Snapshot,
\* all zero for an Agent that never submitted; the hosts of the traffic
\* summary hold exactly one such entry per registered Agent.
C24_Values(view, a) ==
    IF SnapshotsOf(view, a.id) = {}
      THEN [agent |-> a.id, hostname |-> a.hostname,
            sent_gb |-> 0, received_gb |-> 0]
      ELSE [agent |-> a.id, hostname |-> a.hostname,
            sent_gb |-> Gb(NewestOf(view, a.id).bytes_sent),
            received_gb |-> Gb(NewestOf(view, a.id).bytes_received)]
C24_Told(e) ==
    [agent |-> e.agent, hostname |-> e.hostname,
     sent_gb |-> e.sent_gb, received_gb |-> e.received_gb]
C24_HostTraffic ==
    \A r \in Req :
        /\ (pc[r] = "close" /\ IsKind(r, "host"))
              => LET known == {a \in conn.agents :
                                  a.hostname = req[r].hostname} IN
                 /\ resp[r].code = 404 <=> known = {}
                 /\ resp[r].code = 200
                       => \E a \in known :
                             {C24_Told(e) : e \in resp[r].hosts}
                                = {C24_Values(conn, a)}
        /\ (pc[r] = "close" /\ IsKind(r, "summary"))
              => {C24_Told(e) : e \in resp[r].hosts}
                    = {C24_Values(conn, a) : a \in conn.agents}

\* C25: the top-talker list has at most 10 entries, one per (reporting
\* hostname, peer hostname) pair at most, ordered by summed bytes
\* non-increasing, no pair without a peer hostname; each sum counts exactly
\* the PeerConnections of Snapshots stamped within the trailing hour; a pair
\* left out has a sum no greater than the smallest sum listed.
C25_InWindow(m, now) ==
    /\ now - SECONDS_PER_HOUR <= m.timestamp
    /\ m.timestamp <= now
C25_Counted(view, now, from, to) ==
    {c \in view.connections :
        /\ c.remote_hostname = to
        /\ \E m \in view.metrics, a \in view.agents :
              /\ c.metric_id = m.id /\ m.agent_id = a.id
              /\ a.hostname = from /\ C25_InWindow(m, now)}
RECURSIVE C25_Sum(_)
C25_Sum(C) ==
    IF C = {} THEN 0
    ELSE LET c == CHOOSE x \in C : TRUE IN
         c.bytes_transferred + C25_Sum(C \ {c})
C25_Pairs(view, now) ==
    {<<a.hostname, c.remote_hostname>> :
        <<a, c>> \in {x \in view.agents \X view.connections :
                         /\ x[2].remote_hostname # Null
                         /\ C25_Counted(view, now, x[1].hostname,
                                        x[2].remote_hostname) # {}}}
C25_List(top, view, now) ==
    /\ Len(top) <= 10
    /\ \A i, j \in 1..Len(top) :
          /\ (i # j) => <<top[i].from_host, top[i].to_host>>
                           # <<top[j].from_host, top[j].to_host>>
          /\ (i < j) => top[i].total_bytes >= top[j].total_bytes
    /\ \A i \in 1..Len(top) :
          /\ top[i].to_host # Null
          /\ top[i].total_bytes =
                C25_Sum(C25_Counted(view, now, top[i].from_host, top[i].to_host))
    /\ \A p \in C25_Pairs(view, now) :
          \/ \E i \in 1..Len(top) : <<top[i].from_host, top[i].to_host>> = p
          \/ /\ Len(top) = 10
             /\ \A i \in 1..Len(top) :
                   C25_Sum(C25_Counted(view, now, p[1], p[2]))
                      <= top[i].total_bytes
C25_TopTalkers ==
    \A r \in Req :
        (pc[r] = "close" /\ IsKind(r, "summary") /\ resp[r].code = 200)
           => C25_List(resp[r].top_connections, conn, loc[r].now)

\* A history request with its answer
HistoryAnswered(r) == pc[r] = "close" /\ IsKind(r, "history")

\* The Snapshots a window of the given hours ending now must list
C26_Expected(view, now, hours, name) ==
    {m \in view.metrics :
        /\ now - hours * 3600 <= m.timestamp /\ m.timestamp <= now
        /\ name # Null => \E a \in view.agents :
                             a.id = m.agent_id /\ a.hostname = name}
C26_Series(data, expected) ==
    /\ {data[i].id : i \in 1..Len(data)} = {m.id : m \in expected}
    /\ Len(data) = Cardinality(expected)
    /\ \A i, j \in 1..Len(data) :
          i < j => data[i].timestamp <= data[j].timestamp

\* C26: GET /traffic/history lists exactly the Snapshots stamped within
\* [now - hours, now] (of the Agents of the given hostname, if one is given),
\* each once, by timestamp non-decreasing; without hours the window is 24 h.
C26_HistoryWindow ==
    \A r \in Req :
        (HistoryAnswered(r) /\ resp[r].code = 200)
           => C26_Series(resp[r].data,
                 C26_Expected(conn, loc[r].now,
                              IF req[r].given THEN req[r].hours ELSE 24,
                              req[r].hostname))
C26_Witness ==
    \E r \in Req :
        /\ HistoryAnswered(r) /\ resp[r].code = 200
        /\ req[r].given /\ req[r].hours = 1 /\ req[r].hostname = "h1"
        /\ Len(resp[r].data) = 2
        /\ resp[r].data[1].timestamp = loc[r].now - 3600
        /\ resp[r].data[2].timestamp = loc[r].now
        /\ Cardinality(conn.metrics) = 3

\* C27: for every requested hours value H, also H < 1 and H > 720, GET
\* /traffic/history succeeds with the series of a window of clamp(H, 1, 720)
\* hours.
C27_Clamp(h) == IF h < 1 THEN 1 ELSE IF h > 720 THEN 720 ELSE h
C27_HoursClamped ==
    \A r \in Req :
        HistoryAnswered(r)
           => /\ resp[r].code = 200
              /\ C26_Series(resp[r].data,
                    C26_Expected(conn, clock, C27_Clamp(req[r].hours),
                                 req[r].hostname))

\* ------------------------------------------------- C28..C30: the estimator
Baseline == <<monitor.prev_bytes_sent, monitor.prev_bytes_recv,
              monitor.prev_timestamp>>
Reading == <<Some(monitor.args.bytes_sent), Some(monitor.args.bytes_recv),
             Some(monitor.args.timestamp)>>
ColdStart == monitor.calls >= 1 /\ monitor.before[1] = Unset
Elapsed == monitor.args.timestamp - monitor.before[3][1]
Later == monitor.calls >= 1 /\ monitor.before[1] # Unset

\* C28: the first call returns (0, 0) whatever the counters are and stores
\* the reading as the baseline; it is the only call that finds no baseline;
\* every later call with a positive elapsed time leaves the current reading
\* as the baseline.
C28_ColdStart ==
    /\ monitor.calls = 0 => Baseline = <<Unset, Unset, Unset>>
    /\ monitor.calls >= 1 => (ColdStart <=> monitor.calls = 1)
    /\ ColdStart =>
         /\ monitor.result = <<ZeroRate, ZeroRate>>
         /\ Baseline = Reading
    /\ (Later /\ Elapsed > 0) => Baseline = Reading

\* A later call with a positive elapsed time whose reading differs from the
\* baseline it found in every field
C28_Witness ==
    /\ Later
    /\ Elapsed > 0
    /\ \A i \in 1..3 : monitor.before[i] # Reading[i]
    /\ Baseline = Reading

\* C29: a call whose elapsed time is zero or negative returns (0, 0) and
\* leaves the three baseline fields as it found them.
C29_Stalled ==
    (Later /\ Elapsed <= 0) =>
        /\ monitor.result = <<ZeroRate, ZeroRate>>
        /\ Baseline = monitor.before

\* A call at the very timestamp of the baseline, with other counters
C29_Witness ==
    /\ Later
    /\ Elapsed = 0
    /\ monitor.args.bytes_sent # monitor.before[1][1]
    /\ monitor.args.bytes_recv # monitor.before[2][1]
    /\ monitor.result = <<ZeroRate, ZeroRate>>
    /\ Baseline = monitor.before

C30_Expected(current, baseline) ==
    IF current < baseline THEN current ELSE current - baseline

\* C30: in a call that computes a rate, each direction's delta is the
\* current counter when that counter is below its baseline and the
\* difference otherwise, each direction on its own; no delta and no rate
\* is negative.
C30_Rollover ==
    (Later /\ Elapsed > 0) =>
        /\ monitor.deltas[1] =
              C30_Expected(monitor.args.bytes_sent, monitor.before[1][1])
        /\ monitor.deltas[2] =
              C30_Expected(monitor.args.bytes_recv, monitor.before[2][1])
        /\ \A i \in 1..2 :
              /\ monitor.deltas[i] >= 0
              /\ monitor.result[i].num >= 0
              /\ monitor.result[i].den > 0
              /\ monitor.result[i] = Rate(monitor.deltas[i], Elapsed)

\* The sent counter rolled over while the received counter grew
C30_Witness ==
    /\ Later
    /\ Elapsed > 0
    /\ monitor.args.bytes_sent < monitor.before[1][1]
    /\ monitor.args.bytes_sent > 0
    /\ monitor.args.bytes_recv > monitor.before[2][1]
    /\ monitor.deltas = <<monitor.args.bytes_sent,
                          monitor.args.bytes_recv - monitor.before[2][1]>>

\* ------------------------------------------- C31: the connection aggregator
\* The entries of the listing that count: local address is the monitored
\* IP and the remote address begins with "100."
C31_Counts(e) ==
    /\ e.laddr # << >>
    /\ e.raddr # << >>
    /\ e.laddr[1] = OwnIp
    /\ e.raddr[1][1] = "100."
C31_Entries == {i \in 1..Len(sockets.all_connections) :
                   C31_Counts(sockets.all_connections[i])}
C31_For(ip) == {i \in C31_Entries : sockets.all_connections[i].raddr[1] = ip}

\* C31: the aggregated list has exactly one PeerConnection for every remote
\* IP of the counting entries and none for any other address; its port is
\* the least remote port seen for that IP; its state is ESTABLISHED when one
\* of that IP's entries is, and otherwise one of the states seen for it.
C31_Aggregation ==
    (sockets.called /\ ~sockets.denied) =>
        LET raw == sockets.all_connections
            out == sockets.connections
            ips == {raw[i].raddr[1] : i \in C31_Entries}
        IN /\ {out[j].ip : j \in 1..Len(out)} = ips
           /\ Len(out) = Cardinality(ips)
           /\ \A j \in 1..Len(out) :
                LET of == C31_For(out[j].ip) IN
                /\ out[j].port # Unset
                /\ \E i \in of : raw[i].raddr[2] = out[j].port[1]
                /\ \A i \in of : out[j].port[1] <= raw[i].raddr[2]
                /\ IF \E i \in of : raw[i].status = "ESTABLISHED"
                     THEN out[j].state = "ESTABLISHED"
                     ELSE out[j].state \in {raw[i].status : i \in of}

\* Two entries of one peer, the established one on the larger port, and an
\* entry to an address outside the tailnet: one PeerConnection comes out.
C31_Witness ==
    /\ sockets.called
    /\ ~sockets.denied
    /\ Len(sockets.all_connections) = 3
    /\ Cardinality(C31_Entries) = 2
    /\ \E i, j \in C31_Entries :
          /\ sockets.all_connections[i].raddr[1]
                = sockets.all_connections[j].raddr[1]
          /\ sockets.all_connections[i].raddr[2]
                > sockets.all_connections[j].raddr[2]
          /\ sockets.all_connections[i].status = "ESTABLISHED"
          /\ sockets.all_connections[j].status = "TIME_WAIT"
    /\ \E i \in 1..3 : sockets.all_connections[i].raddr = <<LanIp, 22>>
    /\ Len(sockets.connections) = 1
    /\ sockets.connections[1].port = Some(22)
    /\ sockets.connections[1].state = "ESTABLISHED"

\* --------------------------------------------- C32: what a Snapshot may hold
\* C32: every stored Snapshot has non-negative upload and download rates,
\* and no two of its PeerConnection rows name the same remote IP.
C32_SnapshotsValid ==
    /\ \A m \in disk.metrics : m.upload_mbps >= 0 /\ m.download_mbps >= 0
    /\ \A c, d \in disk.connections :
          (c.metric_id = d.metric_id /\ c.remote = d.remote) => c.id = d.id

\* ------------------------------------------------ C33: last_seen over time
C33_Kept ==
    \A a \in disk.agents :
        \E b \in disk'.agents : b.id = a.id /\ b.last_seen >= a.last_seen

\* C33: while the collector's clock never goes back, no step lowers the
\* stored last_seen of an Agent, and first_seen <= last_seen in every state.
C33_LastSeenMonotone ==
    /\ [](\A a \in disk.agents : a.first_seen <= a.last_seen)
    /\ [][clock' >= clock => C33_Kept]_vars

\* ------------------------------------------------- C34: Snapshots are kept
\* C34: no step removes or changes a stored Snapshot or PeerConnection row,
\* and a Snapshot that a step adds has an id above every id stored before.
C34_AppendOnly ==
    [][/\ disk.metrics \subseteq disk'.metrics
       /\ disk.connections \subseteq disk'.connections
       /\ \A m \in disk'.metrics \ disk.metrics :
             \A o \in disk.metrics : m.id > o.id]_vars

\* The stored Snapshot and its peer row are still there after a sweep
\* marked the Agent offline, a submission added a second Snapshot with its
\* own peers, and another agent registered.
C34_Witness ==
    /\ KeptTables.metrics \subseteq disk.metrics
    /\ KeptTables.connections \subseteq disk.connections
    /\ \E n \in disk.metrics :
          /\ n.id = 2
          /\ n.agent_id = 1
          /\ \E c \in disk.connections : c.metric_id = n.id
    /\ Cardinality(disk.agents) = 2
    /\ \E r \in Req : req[r].kind = "agents" /\ pc[r] = "close"
                       /\ loc[r].stale # {}

\* ------------------------------------------------ C39: the status an Agent has
C39_Appears ==
    \A b \in disk'.agents :
        (\A a \in disk.agents : a.id # b.id) => b.status = "online"

\* C39: every Agent, stored or pending on the connection, is 'online' or
\* 'offline', never 'idle', and an Agent that a step adds is 'online'.
C39_TwoStates ==
    /\ [](\A a \in disk.agents \cup conn.agents :
             a.status \in {"online", "offline"})
    /\ [][C39_Appears]_vars

\* The stored agent was swept offline and a second agent, just registered,
\* is online.
C39_Witness ==
    /\ \E a \in disk.agents : a.id = 1 /\ a.status = "offline"
    /\ \E b \in disk.agents : b.id = 2 /\ b.status = "online"
    /\ \E r \in Req : req[r].kind = "register" /\ pc[r] = "close"
                       /\ resp[r].code = 200

\* ------------------------------------------------- C40: what a sweep changes
\* The sweep of check_agent_timeout at one clock value, as one operation
C40_Sweep(agents, now) ==
    {IF a.status # "offline" /\ a.last_seen + AGENT_TIMEOUT_SECONDS < now
       THEN [a EXCEPT !.status = "offline"] ELSE a : a \in agents}

C40_Step ==
    \A r \in Req :
        (pc[r] = "sweep_commit" /\ Moved(r))
           => /\ disk'.metrics = disk.metrics
              /\ disk'.connections = disk.connections
              /\ Cardinality(disk'.agents) = Cardinality(disk.agents)
              /\ \A a \in disk.agents :
                    \E b \in disk'.agents :
                       /\ b.id = a.id
                       /\ [b EXCEPT !.status = a.status] = a
                       /\ (a.status = "offline"
                             \/ a.last_seen + AGENT_TIMEOUT_SECONDS >= clock)
                          => b = a

\* C40: the commit of a sweep changes nothing but the status of Agents, and
\* of no Agent that is offline or whose last_seen is within the timeout; it
\* leaves Snapshots and PeerConnections as they are; a second sweep at the
\* same clock value changes nothing.
C40_SweepFrame ==
    /\ [][C40_Step]_vars
    /\ [](LET once == C40_Sweep(disk.agents, clock)
          IN C40_Sweep(once, clock) = once)

\* ---------------------------------------------- C35..C38: the agent's loop
\* The iteration's failure is counted, a successful submission resets the
\* count.
C35_Counts ==
    /\ (mainloop.pc = "collect" /\ mainloop'.metrics = "none")
          => mainloop'.consecutive_failures
                = mainloop.consecutive_failures + 1
    /\ (mainloop.pc = "submit" /\ mainloop'.submits = 1)
          => mainloop'.consecutive_failures
                = IF mainloop'.success THEN 0
                  ELSE mainloop.consecutive_failures + 1
\* Once the count is 10 the loop is at its threshold test or has ended.
C35_AtOnce ==
    mainloop.consecutive_failures >= MAX_FAILURES
       => mainloop.pc \in {"check", "stopped"}
\* The loop ends for failure only after 10 failed ticks in a row.
C35_NotEarlier ==
    mainloop.ended = "failures" => mainloop.failed_ticks >= MAX_FAILURES

\* C35: the loop counts consecutive failed ticks (no data collected, or
\* submit_metrics answered False), resets the count to 0 on a successful
\* submission, ends as soon as the count reaches 10, and does not end for
\* failure before 10 ticks in a row have failed.
C35_FailFast ==
    /\ [][C35_Counts]_vars
    /\ [](C35_AtOnce /\ C35_NotEarlier)

\* A tick without data makes no submission and, when the counters were
\* unavailable, leaves the estimator's baseline alone.
C36_Skips ==
    (mainloop.pc = "collect" /\ mainloop'.metrics = "none")
       => /\ mainloop'.submits = 0
          /\ mainloop'.pc = "check"
          /\ ~mainloop'.available => monitor' = monitor
\* After a tick without data the loop sleeps the interval and goes on.
C36_Proceeds ==
    /\ (mainloop.pc = "check" /\ mainloop.metrics = "none"
          /\ mainloop'.pc # "check") => mainloop'.pc = "sleep"
    /\ (mainloop.pc = "sleep" /\ mainloop'.pc # "sleep")
          => /\ mainloop'.pc = "head"
             /\ mainloop'.slept = METRIC_INTERVAL_SECONDS
\* submit_metrics is called at most once in a tick, and only with data.
C36_OneCall ==
    /\ mainloop.submits <= 1
    /\ mainloop.submits = 1 => mainloop.metrics = "data"

\* C36: a tick whose collection yields no data makes no submission, leaves
\* the bandwidth baseline unchanged when the counters were unavailable, and
\* is followed by the sleep of the fixed interval and the next tick, not by
\* the end of the loop; submit_metrics is called at most once per tick and
\* only with collected data.
C36_NoDataTick ==
    /\ [][C36_Skips /\ C36_Proceeds]_vars
    /\ []C36_OneCall

\* With the stop flag set, the tick in progress goes on to its end and no
\* new tick starts.
C37_Finishes ==
    ~mainloop.running
       => /\ mainloop'.iteration = mainloop.iteration
          /\ mainloop.pc \in {"collect", "submit"}
                => mainloop'.pc # "stopped"
\* With the stop flag set, a sleep ends before the interval is over.
C37_CutShort ==
    (~mainloop.running /\ mainloop.pc \in {"sleep", "recover"}
        /\ mainloop'.pc # mainloop.pc)
       => mainloop'.slept < METRIC_INTERVAL_SECONDS

\* C37: once a signal has set the stop flag, the tick in progress runs to
\* completion, no new tick is started, the sleep between ticks is cut
\* short, and the agent eventually exits.
C37_Shutdown ==
    /\ [][C37_Finishes /\ C37_CutShort]_vars
    /\ (~mainloop.running ~> mainloop.pc = "stopped")

\* C38: the failure counter never exceeds 10, and once 10 failures in a
\* row have been counted, whether failed ticks or exceptions caught by the
\* loop's handler, no further iteration starts.
C38_CounterBounded ==
    /\ [](mainloop.consecutive_failures <= MAX_FAILURES)
    /\ [][mainloop.consecutive_failures >= MAX_FAILURES
             => mainloop'.iteration = mainloop.iteration]_vars

====
